---- MODULE Spec2Model ----
(***************************************************************************)
(* Model of the fleet dispatcher of comfyui-sdk (src/pool.ts, class        *)
(* ComfyPool): per-client state, the weighted job queue, client selection  *)
(* under the three queue modes, and run()'s failover loop.                 *)
(*                                                                         *)
(* JavaScript runs every handler to its first suspension point without     *)
(* interleaving, so one action is one synchronous section of the code.     *)
(* The back-off sleeps of getAvailableClient and the retryDelay timer are  *)
(* the suspension points; each firing of such a timer is an action.        *)
(***************************************************************************)
EXTENDS Integers, Sequences, FiniteSets, TLC

\* ---------------------------------------------------------------- bounds
MaxClients == 2        \* client objects ever handed to addClient
MaxJobs == 2           \* run() calls
MaxDepth == 1          \* largest queue_remaining a status frame reports
MaxQueueSize == 1      \* largest opts.maxQueueSize given to the constructor
MaxPairs == 2          \* a batch() call submits at most 2 * MaxPairs jobs
MaxQueued == 4         \* jobs enqueued one after another on the weighted queue
MaxWeight == 2         \* largest weight given to run()
MaxSockets == 3        \* channels of one client alive at the same time
MaxLadders == 1        \* reconnectWs calls of one client
MaxInits == 2          \* init() calls on one client
MaxPayload == 1        \* bytes of a binary frame after its two header words
MaxPathLen == 2        \* segments of a dotted path
MaxBuilders == 3       \* PromptBuilder objects
MaxArrays == 2         \* arrays of paths bound to input names
MaxItems == 2          \* paths in one such array
MaxBypass == 1         \* entries of a bypass list
MaxOps == 3            \* operations on the templates of one workflow
MaxTries == 2          \* largest maxTries given to init()
MaxListeners == 3      \* on() calls recorded in the listener list
MaxEvents == 1         \* client events a pool re-emits
MaxNow == 3            \* largest value of the clock Date.now()
WsTimeout == 1         \* opts.wsTimeout, in clock units
MaxChain == 2          \* operations of one chain build(W).op(..).op(..)

MAX_ATTEMPTS == 10     \* reconnectWs: maximum number of reconnection attempts
HTTP_OK == 200         \* queuePrompt: the only response status it accepts

Ids == {"a", "b"}      \* client ids
NoId == "x"            \* an id no client of the pool has
Modes == {"PICK_ZERO", "PICK_LOWEST", "PICK_ROUTINE"}
NaN == -2              \* the value of n % 0 in JavaScript
Undef == -1            \* an omitted optional number

VARIABLES
  mode,          \* ComfyPool.mode
  clients,       \* ComfyPool.clients: sequence of client objects
  clientStates,  \* ComfyPool.clientStates: [id, queueRemaining, locked, online]
  clientId,      \* ComfyApi.id of every client object
  jobQueue,      \* ComfyPool.jobQueue: sequence of jobs (run() calls)
  routineIdx,    \* ComfyPool.routineIdx
  maxQueueSize,  \* ComfyPool.maxQueueSize
  jobs,          \* the closure of every run() call and where it stands
  initState,     \* per client object: where the init() started by addClient
                 \* stands, and the index initializeClient closed over
  destroyed,     \* the client objects whose _destroyed flag is set
  poolEvents,    \* the "ready" and "added" events the pool has dispatched
  poolDestroyed, \* ComfyPool.destroy() has been called
  api,           \* one ComfyApi: isReady, _destroyed, socket, wsTimer,
                 \* _pollingTimer, and where its init() and pollFn stand
  socks,         \* the channels createSocket has made, with the variables
                 \* their handlers close over
  ladders,       \* the reconnectWs calls: attempt and pending retry timer
  hist,          \* what has happened since the last "disconnected" event
  step,          \* what the last step dispatched, created and requested
  tpl            \* the PromptBuilder objects, the arrays of paths they
                 \* share, and what the last template operation did

\* What the pool keeps about the life of its clients.
lifeVars == <<initState, destroyed, poolEvents, poolDestroyed>>

\* The pool.
poolVars == <<mode, clients, clientStates, clientId, jobQueue, routineIdx,
              maxQueueSize, jobs, lifeVars>>

\* One client and its streaming channel.
apiVars == <<api, socks, ladders, hist, step>>

\* The prompt templates.
tplVars == <<tpl>>

vars == <<mode, clients, clientStates, clientId, jobQueue, routineIdx,
          maxQueueSize, jobs, initState, destroyed, poolEvents, poolDestroyed,
          api, socks, ladders, hist, step, tpl>>

Objs == 1..MaxClients
JobIds == DOMAIN jobs          \* the run() calls of this pool
PoolJobs == 1..MaxJobs
BatchJobs == 1..(2 * MaxPairs)

\* ------------------------------------------------------- array helpers
\* Array.prototype.findIndex / indexOf: 0-based, -1 when absent.
RECURSIVE FindFrom(_, _, _)
FindFrom(s, P(_), i) ==
  IF i > Len(s) THEN -1
  ELSE IF P(s[i]) THEN i - 1
  ELSE FindFrom(s, P, i + 1)

FindIndex(s, P(_)) == FindFrom(s, P, 1)

\* Array.prototype.includes on an array of ids.
Includes(s, x) == \E i \in 1..Len(s) : s[i] = x

\* Math.min(...xs) of a non-empty array.
MathMin(s) == CHOOSE m \in {s[i] : i \in 1..Len(s)} :
                \A i \in 1..Len(s) : m <= s[i]

\* Array.prototype.splice(idx, 0, item) with a 0-based idx.
InsertAt(s, idx, item) ==
  SubSeq(s, 1, idx) \o <<item>> \o SubSeq(s, idx + 1, Len(s))

\* Array.prototype.splice(idx, 1) with a 0-based idx.
RemoveAt(s, idx) == SubSeq(s, 1, idx) \o SubSeq(s, idx + 2, Len(s))

\* ------------------------------------------------------------- the jobs
\* What a caller passes to run(): weight (Undef when omitted), the client
\* filter, and the failover options (maxRetries 0 stands for omitted, which
\* the code cannot tell from 0).
Input(w, inc, exc, r, f) ==
  [weight |-> w, includeIds |-> inc, excludeIds |-> exc, maxRetries |-> r,
   enableFailover |-> f]

\* Calls that differ in weight only, without filter and without failover.
PlainInputs == { Input(w, {}, <<>>, 0, FALSE) : w \in {Undef, 1} }

\* Calls that differ in filter and failover options.
FilterInputs ==
  { Input(Undef, {}, <<>>, 0, TRUE),
    Input(Undef, {}, <<>>, 2, TRUE),
    Input(Undef, {}, <<>>, 2, FALSE),
    Input(Undef, {"a", "b"}, <<>>, 0, TRUE),
    Input(Undef, {"a"}, <<>>, 2, TRUE),
    Input(Undef, {}, <<"a">>, 0, TRUE),
    Input(Undef, {}, <<NoId, NoId>>, 0, TRUE) }

\* A run() call that has not been made yet.  Once run()'s promise has settled
\* its closure is dropped: a settled job keeps how it settled and the clients
\* its function was invoked on.
NewJob ==
  [phase |-> "new", weight |-> 0, includeIds |-> {}, excludedIds |-> <<>>,
   options |-> 0, maxRetries |-> 0, enableFailover |-> TRUE, onlineClients |-> 0,
   attempt |-> 0, ranOn |-> <<>>, lastError |-> FALSE, error |-> "none"]

Settled(job, how, err) ==
  [NewJob EXCEPT !.phase = how, !.error = err, !.ranOn = job.ranOn]

\* ----------------------------------------------------- weighted queue
\* A variant that inserts before the first job of greater or equal weight.
pushJobByWeightEq(queue, js, j) ==
  LET idx == FindIndex(queue, LAMBDA k : js[k].weight >= js[j].weight)
  IN IF idx = -1 THEN Append(queue, j) ELSE InsertAt(queue, idx, j)

\* pushJobByWeight: insert before the first job of strictly greater weight.
pushJobByWeight(queue, js, j) ==
  LET idx == FindIndex(queue, LAMBDA k : js[k].weight > js[j].weight)
  IN IF idx = -1 THEN Append(queue, j) ELSE InsertAt(queue, idx, j)

\* ----------------------------------------------------- client selection
\* The filter without its test of c.online.
AcceptsOffline(c, includeIds, excludeIds) ==
  IF includeIds # {} THEN c.id \in includeIds
  ELSE IF Len(excludeIds) > 0 THEN ~Includes(excludeIds, c.id)
  ELSE TRUE

\* The filter of getAvailableClient over clientStates.
Accepts(c, includeIds, excludeIds) ==
  IF ~c.online THEN FALSE
  ELSE IF includeIds # {} THEN c.id \in includeIds
  ELSE IF Len(excludeIds) > 0 THEN ~Includes(excludeIds, c.id)
  ELSE TRUE

acceptedClients(states, includeIds, excludeIds) ==
  SelectSeq(states, LAMBDA c : Accepts(c, includeIds, excludeIds))

\* The index the mode's switch arm computes (0-based, -1 or NaN for none).
PickIndex(m, accepted, rIdx) ==
  CASE m = "PICK_ZERO" ->
         FindIndex(accepted,
                   LAMBDA c : c.queueRemaining = 0 /\ ~c.locked /\ c.id # "")
    [] m = "PICK_LOWEST" ->
         IF Len(accepted) = 0 THEN -1
         ELSE LET queueSizes == [i \in 1..Len(accepted) |->
                                   accepted[i].queueRemaining]
              IN FindIndex(queueSizes, LAMBDA q : q = MathMin(queueSizes))
    [] m = "PICK_ROUTINE" ->
         IF rIdx = NaN \/ Len(accepted) = 0 THEN NaN
         ELSE rIdx % Len(accepted)

\* The cursor left where it was.
NextRoutineIdxStuck(m, accepted, rIdx) == rIdx

\* routineIdx after one pass of the loop body.
NextRoutineIdx(m, accepted, rIdx) ==
  IF m # "PICK_ROUTINE" THEN rIdx
  ELSE IF rIdx = NaN \/ Len(accepted) = 0 THEN NaN
  ELSE (rIdx + 1) % Len(accepted)

\* One pass of getAvailableClient's loop: the client found (0 for none, the
\* caller then sleeps), the states with the chosen client locked, and the
\* cursor.
getAvailableClient(m, cls, states, rIdx, includeIds, excludeIds) ==
  LET accepted == acceptedClients(states, includeIds, excludeIds)
      index == PickIndex(m, accepted, rIdx)
      found == index >= 0 /\ index < Len(accepted)
      trueIdx == IF found
                 THEN FindIndex(states, LAMBDA c : c.id = accepted[index + 1].id)
                 ELSE -1
  IN [client |-> IF found THEN cls[trueIdx + 1] ELSE 0,
      states |-> IF found
                 THEN [states EXCEPT ![trueIdx + 1].locked = TRUE]
                 ELSE states,
      routineIdx |-> NextRoutineIdx(m, accepted, rIdx)]

\* The part of the pool a synchronous section of run() works on.
Cur ==
  [queue |-> jobQueue, jobs |-> jobs, states |-> clientStates,
   routineIdx |-> routineIdx]

Apply(p) ==
  /\ jobQueue' = p.queue
  /\ jobs' = p.jobs
  /\ clientStates' = p.states
  /\ routineIdx' = p.routineIdx

\* processJobQueue for the job at the head of the queue: shift it, make the
\* first pass of getAvailableClient, and either invoke job.fn on the client
\* found or leave the job sleeping in the selection loop.
processJobQueue(p) ==
  IF Len(p.queue) = 0 THEN p
  ELSE LET h == Head(p.queue)
           sel == getAvailableClient(mode, clients, p.states, p.routineIdx,
                                     p.jobs[h].includeIds,
                                     p.jobs[h].excludedIds)
       IN [queue |-> Tail(p.queue),
           jobs |-> IF sel.client # 0
                    THEN [p.jobs EXCEPT ![h].phase = "running",
                                        ![h].ranOn = Append(@, sel.client)]
                    ELSE [p.jobs EXCEPT ![h].phase = "waiting"],
           states |-> sel.states,
           routineIdx |-> sel.routineIdx]

\* claim: refuse when the queue is full, else enqueue by weight and run
\* processJobQueue.  A refusal rejects run()'s promise (lastError || claimError).
claim(j, p) ==
  IF Len(p.queue) >= maxQueueSize
  THEN [p EXCEPT !.jobs[j] =
          Settled(p.jobs[j], "rejected",
                  IF p.jobs[j].lastError THEN "job" ELSE "queue_full")]
  ELSE processJobQueue(
         [p EXCEPT !.queue = pushJobByWeight(p.queue, p.jobs, j)])

\* tryExecute: count the attempt and claim a client.
tryExecute(j, p) == claim(j, [p EXCEPT !.jobs[j].attempt = @ + 1])

\* onlineClients of run(): the client states that are online.
CountOnline(states) == Len(SelectSeq(states, LAMBDA c : c.online))

OnlineCount == CountOnline(clientStates)

\* run(job, weight, clientFilter, options) up to its first suspension point.
run(j, inp, p) ==
  LET w == IF inp.weight = Undef THEN Len(p.queue) ELSE inp.weight
      n == CountOnline(p.states)
  IN tryExecute(j,
       [p EXCEPT !.jobs[j] =
          [NewJob EXCEPT !.weight = w,
                         !.includeIds = inp.includeIds,
                         !.excludedIds = inp.excludeIds,
                         !.options = inp.maxRetries,
                         !.maxRetries = IF inp.maxRetries # 0
                                        THEN inp.maxRetries ELSE n,
                         !.enableFailover = inp.enableFailover,
                         !.onlineClients = n]])

\* batch(jobs, weight, clientFilter): run() for each job of the array, in
\* order, in one synchronous section.
RECURSIVE batch(_, _, _, _)
batch(j, last, inp, p) ==
  IF j > last THEN p ELSE batch(j + 1, last, inp, run(j, inp, p))

\* ------------------------------------------------ one client's channel
\* ComfyApi (src/client.ts): init(), createSocket(), the handlers of a
\* channel, the liveness watchdog, reconnectWs() and its retry timer, the
\* polling fallback, and destroy().  A channel is connecting, open, failing
\* (its error event is due), closing (its close event is due) or closed.
Socks == 1..MaxSockets
Ladders == 1..MaxLadders

NoSock ==
  [state |-> "unused", isReconnect |-> FALSE, reconnecting |-> FALSE,
   usePolling |-> FALSE, handlers |-> FALSE, timer |-> FALSE, ladder |-> 0]

NoLadder ==
  [attempt |-> 0, timer |-> FALSE, failed |-> FALSE, reconnected |-> FALSE]

NoHist ==
  [disconnected |-> FALSE, creations |-> 0, failed |-> 0,
   afterFailed |-> FALSE, opened |-> FALSE]

\* The Blob of a b_preview event.
NoBlob == [mime |-> "", payload |-> <<>>]

NoStep ==
  [events |-> {}, created |-> FALSE, requested |-> FALSE, frame |-> <<>>,
   blob |-> NoBlob, tick |-> "none"]

\* The locals of pingSuccess(maxTries, delayTime): the counter tries, the
\* health probes sent and the delays started by this call, and whether it is
\* sleeping in delay().
NoPing ==
  [maxTries |-> 0, tries |-> 0, probes |-> 0, waits |-> 0, waiting |-> FALSE]

NewApi ==
  [isReady |-> FALSE, destroyed |-> FALSE, socket |-> 0, wsTimer |-> 0,
   pollingTimer |-> FALSE, pollInFlight |-> FALSE, init |-> "idle",
   inits |-> 0, featProbes |-> 0, termSubs |-> 0, lastActivity |-> 0,
   now |-> 0, ping |-> NoPing, listeners |-> <<>>, attached |-> {},
   prompt |-> [phase |-> "none", append |-> FALSE, status |-> 0,
               err |-> "none"]]

\* No client of the pool has its channel modelled.
ApiIdle ==
  /\ api = NewApi
  /\ socks = [s \in Socks |-> NoSock]
  /\ ladders = [l \in Ladders |-> NoLadder]
  /\ hist = NoHist
  /\ step = NoStep

\* The client at the start of a handler.
Cli ==
  [api |-> api, socks |-> socks, ladders |-> ladders, hist |-> hist,
   step |-> NoStep, ok |-> TRUE]

\* A closed channel nothing refers to any more is forgotten.
Forget(c) ==
  [c EXCEPT !.socks =
     [s \in Socks |->
        IF c.socks[s].state = "closed" /\ ~c.socks[s].timer /\ c.api.socket # s
        THEN NoSock ELSE c.socks[s]]]

ApplyApi(c) ==
  /\ c.ok
  /\ api' = c.api
  /\ socks' = Forget(c).socks
  /\ ladders' = c.ladders
  /\ hist' = c.hist
  /\ step' = c.step
  /\ UNCHANGED <<poolVars, tplVars>>

dispatchEvent(c, e) == [c EXCEPT !.step.events = @ \cup {e}]

\* resetLastActivity: lastActivity = Date.now(); the field now of the client
\* record is the value Date.now() returns.
resetLastActivity(c) == [c EXCEPT !.api.lastActivity = c.api.now]

\* A channel record that can be used for a new channel (0 when the bound on
\* simultaneous channels is reached).
FreeSock(c) ==
  LET free == {s \in Socks : /\ c.socks[s].state \in {"unused", "closed"}
                             /\ ~c.socks[s].timer
                             /\ c.api.socket # s}
  IN IF free = {} THEN 0 ELSE CHOOSE s \in free : \A t \in free : s <= t

\* setupPollingFallback: any polling interval is cleared and a new one set.
setupPollingFallback(c) == [c EXCEPT !.api.pollingTimer = TRUE]

\* createSocket(isReconnect), called by init, by the retry ladder lad or by
\* pollFn (lad = 0); throws says whether the WebSocketClient constructor
\* throws.  A first connection also starts the liveness watchdog, storing its
\* handle in wsTimer without clearing an earlier one.
createSocket(c, isReconnect, lad, throws) ==
  IF c.api.socket # 0 THEN c
  ELSE LET c1 == [c EXCEPT
                    !.step.created = TRUE,
                    !.hist.creations = IF @ > MAX_ATTEMPTS THEN @ ELSE @ + 1,
                    !.hist.afterFailed = @ \/ c.hist.failed > 0]
           s == FreeSock(c)
       IN IF throws
          THEN setupPollingFallback(dispatchEvent(c1, "websocket_unavailable"))
          ELSE IF s = 0 THEN [c EXCEPT !.ok = FALSE]
          ELSE [c1 EXCEPT
                  !.socks[s] = [state |-> "connecting",
                                isReconnect |-> isReconnect,
                                reconnecting |-> FALSE, usePolling |-> FALSE,
                                handlers |-> TRUE, timer |-> ~isReconnect,
                                ladder |-> lad],
                  !.api.socket = s,
                  !.api.wsTimer = IF isReconnect THEN @ ELSE s]

\* terminate() and close() of a channel: its error and close events follow.
terminate(c, s) ==
  [c EXCEPT !.socks[s].state =
     CASE @ = "connecting" -> "failing"
       [] @ = "open" -> "closing"
       [] OTHER -> @]

\* tryReconnect of ladder l: tear the current channel down, create a new one,
\* and either arm the retry timer or give up.
tryReconnect(c, l, throws) ==
  LET n == c.ladders[l].attempt + 1
      c1 == [c EXCEPT !.ladders[l].attempt = n]
      c2 == IF c1.api.socket # 0 THEN terminate(c1, c1.api.socket) ELSE c1
      c3 == createSocket([c2 EXCEPT !.api.socket = 0], TRUE, l, throws)
  IN IF n < MAX_ATTEMPTS
     THEN [c3 EXCEPT !.ladders[l].timer = TRUE]
     ELSE [dispatchEvent(c3, "reconnection_failed") EXCEPT
             !.ladders[l].failed = TRUE,
             !.hist.failed = IF @ > 1 THEN @ ELSE @ + 1]

\* A ladder record for a new reconnectWs call (0 when the bound is reached).
FreeLadder(c) ==
  LET free == {l \in Ladders : c.ladders[l].attempt = 0}
  IN IF free = {} THEN 0 ELSE CHOOSE l \in free : \A k \in free : l <= k

\* reconnectWs(true): "disconnected" and "reconnecting", then the first
\* attempt of a new ladder.
reconnectWs(c, throws) ==
  LET l == FreeLadder(c)
      c1 == dispatchEvent(dispatchEvent(c, "disconnected"), "reconnecting")
  IN IF l = 0 THEN [c EXCEPT !.ok = FALSE]
     ELSE tryReconnect(
            [c1 EXCEPT !.hist = [NoHist EXCEPT !.disconnected = TRUE]],
            l, throws)

\* init() is called: the first health probe of pingSuccess goes out.
InitCall ==
  /\ api.init = "idle"
  /\ api.inits < MaxInits
  /\ ApplyApi([Cli EXCEPT !.api.init = "ping", !.api.inits = @ + 1,
                          !.step.requested = TRUE])

\* init(maxTries, delayTime) is called: pingSuccess sends its first health
\* probe with tries = 0.
InitWith(maxTries) ==
  /\ api.init = "idle"
  /\ api.inits < MaxInits
  /\ ApplyApi([Cli EXCEPT !.api.init = "ping", !.api.inits = @ + 1,
                          !.api.ping = [NoPing EXCEPT !.maxTries = maxTries,
                                                      !.probes = 1],
                          !.step.requested = TRUE])

\* A health probe of pingSuccess fails (ping.status is false): the loop throws
\* when tries > maxTries, and init() then dispatches connection_error and
\* rejects; else it sleeps delayTime.
ProbeFails ==
  /\ api.init = "ping"
  /\ api.ping.probes > 0
  /\ ~api.ping.waiting
  /\ ApplyApi(IF api.ping.tries > api.ping.maxTries
              THEN dispatchEvent([Cli EXCEPT !.api.init = "idle"],
                                 "connection_error")
              ELSE [Cli EXCEPT !.api.ping.waiting = TRUE,
                               !.api.ping.waits = @ + 1])

\* The delay of pingSuccess is over: the next probe goes out and tries grows.
DelayElapsed ==
  /\ api.init = "ping"
  /\ api.ping.waiting
  /\ ApplyApi([Cli EXCEPT !.api.ping.waiting = FALSE,
                          !.api.ping.probes = @ + 1,
                          !.api.ping.tries = @ + 1,
                          !.step.requested = TRUE])

\* A health probe succeeds: pullOsType asks for the system stats.
PingOk ==
  /\ api.init = "ping"
  /\ ApplyApi([Cli EXCEPT !.api.init = "osType", !.step.requested = TRUE])

\* A health probe of a counted pingSuccess succeeds.
ProbeOk ==
  /\ api.ping.probes > 0
  /\ ~api.ping.waiting
  /\ PingOk

\* The health probes have failed maxTries times: init() dispatches
\* connection_error and rejects.
PingFail ==
  /\ api.init = "ping"
  /\ ApplyApi(dispatchEvent([Cli EXCEPT !.api.init = "idle"],
                            "connection_error"))

\* pullOsType has settled: the rest of init() runs, which starts the feature
\* probe (not awaited), creates the channel, sends the terminal subscription
\* (not awaited) and sets isReady.
InitFinish(throws) ==
  /\ api.init = "osType"
  /\ ApplyApi(
       [createSocket([Cli EXCEPT !.step.requested = TRUE], FALSE, 0, throws)
          EXCEPT !.api.init = "idle", !.api.isReady = TRUE,
                 !.api.featProbes = @ + 1, !.api.termSubs = @ + 1])

\* The checkSupported() calls of one testFeatures() have all settled: its
\* continuation sets isReady.
FeaturesDone ==
  /\ api.featProbes > 0
  /\ ApplyApi([Cli EXCEPT !.api.featProbes = @ - 1, !.api.isReady = TRUE])

\* The request of one setTerminalSubscription() settles.
TerminalDone ==
  /\ api.termSubs > 0
  /\ ApplyApi([Cli EXCEPT !.api.termSubs = @ - 1])

\* The response statuses of POST /prompt; NoResponse stands for a fetch that
\* throws (no response at all).
NoResponse == 0
Statuses == {200, 204, 400, 500}

\* The client object whose requests and channels the client variables hold,
\* when it is in a pool.
PromptClient == 1

\* queuePrompt(number, workflow), or appendPrompt(workflow) which calls
\* queuePrompt(null, workflow): POST /prompt goes out.
QueuePromptCall(append) ==
  /\ api.prompt.phase # "sent"
  /\ ApplyApi([Cli EXCEPT
       !.api.prompt = [phase |-> "sent", append |-> append, status |-> 0,
                       err |-> "none"],
       !.step.requested = TRUE])

\* The states after the handler initializeClient binds to queue_error of
\* client object o has run.
UnlockedBy(o) ==
  [i \in DOMAIN clientStates |->
     IF clients[i] = o /\ o \notin destroyed
     THEN [clientStates[i] EXCEPT !.locked = FALSE]
     ELSE clientStates[i]]

\* fetchApi settles with status st: queuePrompt returns the body on 200, else
\* throws e.response (undefined when fetch itself threw); the catch of
\* appendPrompt dispatches queue_error, which the pool's handler receives in
\* the same synchronous section, and rethrows.
PromptResponse(st) ==
  /\ api.prompt.phase = "sent"
  /\ LET c1 == [Cli EXCEPT
                  !.api.prompt.status = st,
                  !.api.prompt.phase =
                     IF st = HTTP_OK THEN "resolved" ELSE "rejected",
                  !.api.prompt.err =
                     CASE st = HTTP_OK -> "none"
                       [] st = NoResponse -> "undefined"
                       [] OTHER -> "response"]
         c2 == IF st # HTTP_OK /\ api.prompt.append
               THEN dispatchEvent(c1, "queue_error") ELSE c1
     IN /\ api' = c2.api
        /\ step' = c2.step
        /\ clientStates' = IF "queue_error" \in c2.step.events
                           THEN UnlockedBy(PromptClient) ELSE clientStates
  /\ UNCHANGED <<socks, ladders, hist>>
  /\ UNCHANGED <<mode, clients, clientId, jobQueue, routineIdx, maxQueueSize,
                 jobs, lifeVars, tplVars>>

\* onopen of channel s.
SockOpen(s) ==
  /\ socks[s].state = "connecting"
  /\ LET c1 == [Cli EXCEPT !.socks[s].state = "open"]
         l == socks[s].ladder
         c2 == resetLastActivity(
                 [c1 EXCEPT !.socks[s].reconnecting = FALSE,
                            !.socks[s].usePolling = FALSE,
                            !.hist.opened = TRUE])
         c3 == dispatchEvent(c2, IF socks[s].isReconnect
                                 THEN "reconnected" ELSE "connected")
     IN ApplyApi(IF ~socks[s].handlers THEN c1
                 ELSE IF l # 0 /\ socks[s].isReconnect
                 THEN [c3 EXCEPT !.ladders[l].reconnected = TRUE]
                 ELSE c3)

\* The four bytes of a 32-bit word, big-endian.
u32be(w) ==
  << w \div 16777216, (w \div 65536) % 256, (w \div 256) % 256, w % 256 >>

\* The first n elements of a sequence.
Take(f, n) == SubSeq(f, 1, IF n < Len(f) THEN n ELSE Len(f))

\* The binary frames a server sends: two header words and a payload, and
\* every frame cut short of that.
Words == {0, 1, 2, 3, 257, 16777217}
Payloads == UNION { [1..n -> {7, 9}] : n \in 0..MaxPayload }
Frames ==
  { Take(u32be(w0) \o u32be(w1) \o pl, n) :
      w0 \in Words, w1 \in Words, pl \in Payloads, n \in 0..(8 + MaxPayload) }

\* DataView.getUint32(off) of a frame: the big-endian word at byte off; a
\* read past the end throws a RangeError (reported here as -1).
getUint32(f, off) ==
  IF off + 4 > Len(f) THEN -1
  ELSE f[off + 1] * 16777216 + f[off + 2] * 65536 + f[off + 3] * 256
       + f[off + 4]

\* buffer.slice(8).
slice8(f) == IF Len(f) <= 8 THEN <<>> ELSE SubSeq(f, 9, Len(f))

\* onmessage of channel s for a binary frame f (a Buffer that starts at the
\* beginning of its ArrayBuffer).  Event type 1 dispatches b_preview with a
\* Blob of the bytes from 8 on; any other type, or a frame too short to hold
\* a word, throws inside the try block and is logged by its catch.
BinaryFrame(s, f) ==
  /\ socks[s].state = "open"
  /\ socks[s].handlers
  /\ LET eventType == getUint32(f, 0)
         imageType == getUint32(f, 0)
         imageMime == IF imageType = 2 THEN "image/png" ELSE "image/jpeg"
         c1 == resetLastActivity([Cli EXCEPT !.step.frame = f])
     IN ApplyApi(IF eventType = 1
                 THEN dispatchEvent(
                        [c1 EXCEPT !.step.blob =
                           [mime |-> imageMime, payload |-> slice8(f)]],
                        "b_preview")
                 ELSE c1)

\* onerror of channel s: the first error of a channel that is not
\* reconnecting starts the polling fallback.  The close event follows.
SockError(s) ==
  /\ socks[s].state \in {"connecting", "open", "failing"}
  /\ LET c1 == [Cli EXCEPT !.socks[s].state = "closing"]
     IN ApplyApi(IF /\ socks[s].handlers
                    /\ ~socks[s].reconnecting
                    /\ ~socks[s].usePolling
                 THEN setupPollingFallback(
                        [c1 EXCEPT !.socks[s].usePolling = TRUE])
                 ELSE c1)

\* onclose of channel s: a channel made by a reconnect, or one that is
\* reconnecting already, does nothing; else reconnectWs(true).
SockClose(s, throws) ==
  /\ socks[s].state \in {"open", "closing"}
  /\ LET c1 == [Cli EXCEPT !.socks[s].state = "closed"]
     IN ApplyApi(IF /\ socks[s].handlers
                    /\ ~(socks[s].reconnecting \/ socks[s].isReconnect)
                 THEN reconnectWs([c1 EXCEPT !.socks[s].reconnecting = TRUE],
                                  throws)
                 ELSE c1)

\* A tick of the watchdog started with channel s at which lastActivity is
\* older than wsTimeout (a tick while reconnecting returns at once).
WsTimerFire(s, throws) ==
  /\ socks[s].timer
  /\ ~socks[s].reconnecting
  /\ ApplyApi(reconnectWs([Cli EXCEPT !.socks[s].reconnecting = TRUE], throws))

\* A tick of the watchdog started with channel s at which lastActivity is
\* older than wsTimeout but the flag reconnecting of its createSocket call is
\* set: the callback returns at once.
WsTimerSkip(s) ==
  /\ socks[s].timer
  /\ socks[s].reconnecting
  /\ ApplyApi([Cli EXCEPT !.step.tick = "skipped"])

\* Time passes: Date.now() grows.
ClockTick ==
  /\ api.now < MaxNow
  /\ ApplyApi([Cli EXCEPT !.api.now = @ + 1])

\* A tick of the watchdog with the test of lastActivity on the clock.
WsTimerStale(s, throws) ==
  /\ api.now - api.lastActivity > WsTimeout
  /\ WsTimerFire(s, throws)

\* The retry timer of ladder l fires: retry unless the current channel is open
\* or connecting.
RetryTimerFire(l, throws) ==
  /\ ladders[l].timer
  /\ LET c1 == [Cli EXCEPT !.ladders[l].timer = FALSE]
     IN ApplyApi(IF \/ api.socket = 0
                    \/ socks[api.socket].state \notin {"open", "connecting"}
                 THEN tryReconnect(c1, l, throws)
                 ELSE c1)

\* A tick of the polling interval: pollFn asks for the status.
PollTick ==
  /\ api.pollingTimer
  /\ ~api.pollInFlight
  /\ ApplyApi([Cli EXCEPT !.api.pollInFlight = TRUE, !.step.requested = TRUE])

\* The status request of pollFn succeeds: "status" is dispatched, then either
\* createSocket(true) is called or, the channel being open, polling stops.
PollOk(throws) ==
  /\ api.pollInFlight
  /\ LET c1 == resetLastActivity(
                 dispatchEvent([Cli EXCEPT !.api.pollInFlight = FALSE],
                               "status"))
     IN ApplyApi(IF \/ api.socket = 0
                    \/ socks[api.socket].state # "open"
                 THEN createSocket(c1, TRUE, 0, throws)
                 ELSE [c1 EXCEPT !.api.pollingTimer = FALSE])

\* The status request of pollFn fails: logged.
PollFail ==
  /\ api.pollInFlight
  /\ ApplyApi([Cli EXCEPT !.api.pollInFlight = FALSE])

\* The listener list of the client (the pool keeps its own the same way):
\* api.listeners is the array this.listeners of {event, handler} records,
\* api.attached the (type, callback) pairs the EventTarget holds, which
\* addEventListener keeps without duplicates.
EventTypes == {"status", "progress"}
Callbacks == {"f", "g"}

\* The (event, handler) pairs of a listener list.
Recorded(ls) == {<<ls[i].event, ls[i].handler>> : i \in 1..Len(ls)}

\* removeAllListeners: removeEventListener for every recorded listener, and
\* the list is emptied.
removeAllListeners(c) ==
  [c EXCEPT !.api.attached = @ \ Recorded(c.api.listeners),
            !.api.listeners = <<>>]

\* on(type, callback)
On(type, callback) ==
  /\ Len(api.listeners) < MaxListeners
  /\ ApplyApi([Cli EXCEPT
       !.api.attached = @ \cup {<<type, callback>>},
       !.api.listeners = Append(@, [event |-> type, handler |-> callback])])

\* off(type, callback): the list keeps the listeners whose event differs
\* from type and whose handler differs from callback; removeEventListener
\* detaches the pair (type, callback).
Off(type, callback) ==
  /\ type \in EventTypes
  /\ ApplyApi([Cli EXCEPT
       !.api.listeners =
          SelectSeq(@, LAMBDA l : l.event # type /\ l.handler # callback),
       !.api.attached = @ \ {<<type, callback>>}])

\* removeAllListeners() called by the owner.
RemoveAllListeners ==
  /\ Len(api.listeners) >= 0
  /\ ApplyApi(removeAllListeners(Cli))

\* destroy(): returns at once when the flag is set; else sets it, clears the
\* watchdog whose handle wsTimer holds and the polling interval, clears the
\* handlers of the current channel and closes it, drops the channel, and
\* removes all listeners.
ApiDestroy ==
  /\ ~api.destroyed
  /\ LET s == api.socket
         t == api.wsTimer
         c1 == removeAllListeners(
                 [Cli EXCEPT !.api.destroyed = TRUE, !.api.wsTimer = 0,
                             !.api.pollingTimer = FALSE, !.api.socket = 0])
         c2 == IF t # 0 THEN [c1 EXCEPT !.socks[t].timer = FALSE] ELSE c1
         c3 == IF s # 0
               THEN [c2 EXCEPT !.socks[s].handlers = FALSE,
                               !.socks[s].state = "closed"]
               ELSE c2
     IN ApplyApi(c3)

\* ------------------------------------------------ prompt templates
\* PromptBuilder (src/prompt-builder.ts).  A workflow is a tree of objects;
\* it is held as a function from the paths of its properties (sequences of
\* keys) to "obj" for an object or to a scalar.  The scalar "0" is falsy,
\* "5" is truthy.  A dotted path string is held as the sequence of its
\* segments, which is what path.split(".") makes of it.
Keys == {"a", "b"}
Reserved == {"__proto__", "constructor", "prototype"}
Segments == Keys \cup Reserved
Scalars == {"0", "5"}
Names == {"x", "y"}          \* "x" is registered by the constructor
OutNames == {"o"}
Builders == 1..MaxBuilders
Arrays == 1..MaxArrays

PathsOver(S) == UNION { [1..n -> S] : n \in 1..MaxPathLen }
NormalPaths == PathsOver(Keys)
ReservedPaths ==
  { p \in PathsOver(Segments) : \E i \in 1..Len(p) : p[i] \in Reserved }

\* The workflows handed to the constructor: every top-level key is absent, a
\* scalar or an object with the one property a = "5".
Workflows ==
  { [p \in { <<k>> : k \in { k \in Keys : top[k] # "none" } } \cup
           { <<k, "a">> : k \in { k \in Keys : top[k] = "obj" } }
       |-> IF Len(p) = 1 THEN top[p[1]] ELSE "5"] :
      top \in [Keys -> {"none", "obj"} \cup Scalars] }

\* The objects outside a workflow that a path can reach: Object.prototype,
\* Object, Function.prototype, Function, and any other object (NEW).
OutObjs == {"OP", "OC", "FP", "FC", "NEW"}

\* The object without properties.
EmptyMap == [q \in {} |-> "none"]

Falsy(v) == v \in {"undefined", "null", "0"}

\* obj[k] for an object outside the workflow, given the properties written
\* outside so far: an own property, a built-in one, or one inherited along
\* the prototype chain.
RECURSIVE getOutside(_, _, _)
getOutside(out, X, k) ==
  IF <<X, k>> \in DOMAIN out
  THEN (IF out[<<X, k>>] = "obj" THEN "NEW" ELSE out[<<X, k>>])
  ELSE CASE k = "__proto__" ->
              (CASE X = "OP" -> "null"
                 [] X \in {"OC", "FC"} -> "FP"
                 [] OTHER -> "OP")
         [] k = "constructor" /\ X = "OP" -> "OC"
         [] k = "constructor" /\ X = "FP" -> "FC"
         [] k = "prototype" /\ X = "OC" -> "OP"
         [] k = "prototype" /\ X = "FC" -> "FP"
         [] X = "OP" -> "undefined"
         [] X \in {"OC", "FC"} -> getOutside(out, "FP", k)
         [] OTHER -> getOutside(out, "OP", k)

\* t with the property at path p set to v (what was below p is gone).
setAt(t, p, v) ==
  LET below == { q \in DOMAIN t :
                   Len(q) > Len(p) /\ SubSeq(q, 1, Len(p)) = p }
  IN [q \in (DOMAIN t \ below) \cup {p} |-> IF q = p THEN v ELSE t[q]]

\* A write in progress: the workflow t, the properties written outside it,
\* where `current` points (an object of the workflow, an object outside, or
\* a truthy scalar), and the error thrown.
StartWrite(t, out) ==
  [t |-> t, out |-> out, cur |-> [at |-> "tree", p |-> <<>>],
   err |-> "none"]

\* current[k].
lookup(st, k) ==
  CASE st.cur.at = "tree" ->
         (IF Append(st.cur.p, k) \in DOMAIN st.t
          THEN (IF st.t[Append(st.cur.p, k)] = "obj" THEN "TREE"
                ELSE st.t[Append(st.cur.p, k)])
          ELSE IF k = "__proto__" THEN "OP"
          ELSE getOutside(st.out, "OP", k))
    [] st.cur.at = "prim" ->
         (IF k = "__proto__" THEN "NEW" ELSE getOutside(st.out, "NEW", k))
    [] OTHER -> getOutside(st.out, st.cur.at, k)

\* descend without the creation of a missing intermediate object.
descendStrict(st, k) ==
  LET v == lookup(st, k)
  IN IF st.err # "none" THEN st
     ELSE IF Falsy(v) THEN [st EXCEPT !.err = "TypeError"]
     ELSE CASE v = "TREE" -> [st EXCEPT !.cur.p = Append(@, k)]
            [] v \in OutObjs -> [st EXCEPT !.cur = [at |-> v, p |-> <<>>]]
            [] OTHER -> [st EXCEPT !.cur = [at |-> "prim", p |-> <<>>]]

\* if (!current[k]) current[k] = {}; current = current[k].  In strict mode
\* the assignment throws a TypeError on a scalar and on the prototype of
\* Object.prototype.
descend(st, k) ==
  LET v == lookup(st, k)
  IN IF st.err # "none" THEN st
     ELSE IF Falsy(v)
     THEN CASE st.cur.at = "tree" ->
                 [st EXCEPT !.t = setAt(@, Append(st.cur.p, k), "obj"),
                            !.cur.p = Append(@, k)]
            [] st.cur.at = "prim" -> [st EXCEPT !.err = "TypeError"]
            [] k = "__proto__" -> [st EXCEPT !.err = "TypeError"]
            [] OTHER ->
                 [st EXCEPT !.out = [q \in DOMAIN @ \cup {<<st.cur.at, k>>} |->
                                       IF q = <<st.cur.at, k>> THEN "obj"
                                       ELSE @[q]],
                            !.cur = [at |-> "NEW", p |-> <<>>]]
     ELSE CASE v = "TREE" -> [st EXCEPT !.cur.p = Append(@, k)]
            [] v \in OutObjs -> [st EXCEPT !.cur = [at |-> v, p |-> <<>>]]
            [] OTHER -> [st EXCEPT !.cur = [at |-> "prim", p |-> <<>>]]

\* current[k] = v for a scalar v: the __proto__ setter ignores a scalar; a
\* scalar has no properties to create; Object.prototype and
\* Function.prototype are not writable.
assign(st, k, v) ==
  IF st.err # "none" \/ k = "__proto__" THEN st
  ELSE CASE st.cur.at = "tree" ->
              [st EXCEPT !.t = setAt(@, Append(st.cur.p, k), v)]
         [] st.cur.at = "prim" -> [st EXCEPT !.err = "TypeError"]
         [] st.cur.at \in {"OC", "FC"} /\ k = "prototype" ->
              [st EXCEPT !.err = "TypeError"]
         [] OTHER ->
              [st EXCEPT !.out = [q \in DOMAIN @ \cup {<<st.cur.at, k>>} |->
                                    IF q = <<st.cur.at, k>> THEN v ELSE @[q]]]

\* The loops of input() for one path: descend along all segments but the
\* last, then assign.
RECURSIVE walk(_, _, _)
walk(st, keys, i) ==
  IF i >= Len(keys) THEN st ELSE walk(descend(st, keys[i]), keys, i + 1)

writePath(st, keys, v) ==
  assign(walk([st EXCEPT !.cur = [at |-> "tree", p |-> <<>>]], keys, 1),
         keys[Len(keys)], v)

\* The loop of input() over the bound paths; an exception ends it.
RECURSIVE writePaths(_, _, _, _)
writePaths(st, paths, i, v) ==
  IF i > Len(paths) \/ st.err # "none" THEN st
  ELSE writePaths(writePath(st, paths[i], v), paths, i + 1, v)

\* The loops of inputRaw(): segments __proto__ and constructor are skipped.
RECURSIVE walkRaw(_, _, _)
walkRaw(st, keys, i) ==
  IF i >= Len(keys) THEN st
  ELSE walkRaw(IF keys[i] \in {"__proto__", "constructor"} THEN st
               ELSE descend(st, keys[i]),
               keys, i + 1)

writeRaw(st, keys, v) ==
  IF keys[Len(keys)] \in {"__proto__", "constructor"}
  THEN walkRaw(st, keys, 1)
  ELSE assign(walkRaw(st, keys, 1), keys[Len(keys)], v)

\* A binding of mapInputKeys: undefined, a path string, or a reference to an
\* array of path strings.
NoBinding == [kind |-> "undef", path |-> <<>>, ref |-> 0]
StrBinding(p) == [kind |-> "str", path |-> p, ref |-> 0]
ArrBinding(r) == [kind |-> "arr", path |-> <<>>, ref |-> r]

NoBuilder ==
  [used |-> FALSE, prompt |-> EmptyMap, mapInputKeys |-> [n \in Names |-> NoBinding],
   mapOutputKeys |-> [n \in OutNames |-> <<>>], bypassNodes |-> <<>>,
   cloneOf |-> 0]

NoTStep ==
  [op |-> "none", on |-> 0, ret |-> 0, fresh |-> FALSE, name |-> "",
   paths |-> <<>>, value |-> "", err |-> "none"]

\* new PromptBuilder(W, ["x"], ["o"]): the prompt is a structuredClone of W.
NewBuilder(W) == [NoBuilder EXCEPT !.used = TRUE, !.prompt = W]

\* No template has been built.
NoTpl ==
  [builders |-> [b \in Builders |-> NoBuilder],
   arrays |-> [r \in Arrays |-> <<>>],
   allocated |-> 0,
   ops |-> 0,
   outside |-> EmptyMap,
   callerW |-> EmptyMap,
   step |-> NoTStep]

TplIdle == tpl = NoTpl

\* The id of the next builder object (0 when the bound is reached).
FreeBuilder(T) ==
  LET free == { b \in Builders : ~T.builders[b].used }
  IN IF free = {} THEN 0 ELSE CHOOSE b \in free : \A c \in free : b <= c

\* clone() of builder b as object n: a new builder on a structuredClone of
\* the prompt, with shallow copies of the two maps (a bound array is shared)
\* and of the bypass list.
clone(T, b, n) ==
  [T EXCEPT !.builders[n] = [T.builders[b] EXCEPT !.cloneOf = 0]]

\* The returned builder is kept as object n; with no object left for it, it
\* is dropped by the caller.
keep(T, b, n) == IF n = 0 THEN T ELSE clone(T, b, n)

ApplyTpl(T, s) ==
  /\ tpl.ops < MaxOps
  /\ tpl' = [T EXCEPT !.step = s, !.ops = tpl.ops + 1]
  /\ UNCHANGED <<poolVars, apiVars>>

\* t.clone(), called by the owner of the template.
Clone(b) ==
  /\ tpl.builders[b].used
  /\ FreeBuilder(tpl) # 0
  /\ LET n == FreeBuilder(tpl)
     IN ApplyTpl([clone(tpl, b, n) EXCEPT !.builders[n].cloneOf = b],
                 [NoTStep EXCEPT !.fresh = TRUE, !.op = "clone", !.on = b, !.ret = n])

\* bypass(node): clone, then push.
Bypass(b, node) ==
  /\ tpl.builders[b].used
  /\ FreeBuilder(tpl) # 0
  /\ Len(tpl.builders[b].bypassNodes) < MaxBypass
  /\ LET n == FreeBuilder(tpl)
     IN ApplyTpl([clone(tpl, b, n) EXCEPT
                    !.builders[n].bypassNodes = Append(@, node)],
                 [NoTStep EXCEPT !.fresh = TRUE, !.op = "bypass", !.on = b, !.ret = n,
                                 !.name = node])

\* bypassNodes.indexOf(node), 0-based, -1 when absent.
indexOf(s, x) ==
  IF \E i \in 1..Len(s) : s[i] = x
  THEN (CHOOSE i \in 1..Len(s) : s[i] = x /\ \A k \in 1..(i - 1) : s[k] # x) - 1
  ELSE -1

\* Array.splice(start, 1): a negative start counts from the end.
splice1(s, start) ==
  LET i == IF start < 0 THEN Len(s) + start ELSE start
  IN IF i < 0 \/ i >= Len(s) THEN s
     ELSE SubSeq(s, 1, i) \o SubSeq(s, i + 2, Len(s))

\* reinstate(node): clone, then splice(indexOf(node), 1).
Reinstate(b, node) ==
  /\ tpl.builders[b].used
  /\ FreeBuilder(tpl) # 0
  /\ LET n == FreeBuilder(tpl)
     IN ApplyTpl([clone(tpl, b, n) EXCEPT
                    !.builders[n].bypassNodes = splice1(@, indexOf(@, node))],
                 [NoTStep EXCEPT !.fresh = TRUE, !.op = "reinstate", !.on = b, !.ret = n,
                                 !.name = node])

\* The keys a caller passes to setInputNode or appendInputNode: one path
\* string, or an array of one or two path strings.
KeyArgs(P) ==
  { [isArray |-> FALSE, paths |-> <<p>>] : p \in P } \cup
  { [isArray |-> TRUE, paths |-> ps] :
      ps \in { <<p>> : p \in P } \cup { <<p, q>> : p \in P, q \in P } }

\* setInputNode / setRawInputNode(input, key): mapInputKeys[input] = key on
\* this builder, then clone.  An array key is the caller's array object.
setRawInputNode(b, name, key) ==
  /\ tpl.builders[b].used
  /\ key.isArray => tpl.allocated < MaxArrays
  /\ LET n == FreeBuilder(tpl)
         r == tpl.allocated + 1
         T1 == IF key.isArray
               THEN [tpl EXCEPT !.arrays[r] = key.paths, !.allocated = r,
                                !.builders[b].mapInputKeys[name] = ArrBinding(r)]
               ELSE [tpl EXCEPT !.builders[b].mapInputKeys[name] =
                                   StrBinding(key.paths[1])]
     IN ApplyTpl(keep(T1, b, n),
                 [NoTStep EXCEPT !.fresh = TRUE, !.op = "setInputNode", !.on = b, !.ret = n,
                                 !.name = name, !.paths = key.paths])

\* appendInputNode / appendRawInputNode(input, key): a string binding is
\* replaced by a new array holding it; the keys are pushed onto the bound
\* array, if there is one; then clone.
appendRawInputNode(b, name, key) ==
  /\ tpl.builders[b].used
  /\ LET n == FreeBuilder(tpl)
         old == tpl.builders[b].mapInputKeys[name]
         r == tpl.allocated + 1
         T1 == IF old.kind = "str"
               THEN [tpl EXCEPT !.arrays[r] = <<old.path>>, !.allocated = r,
                                !.builders[b].mapInputKeys[name] = ArrBinding(r)]
               ELSE tpl
         now == T1.builders[b].mapInputKeys[name]
         T2 == IF now.kind = "arr"
               THEN [T1 EXCEPT !.arrays[now.ref] = @ \o key.paths]
               ELSE T1
     IN /\ old.kind = "str" => tpl.allocated < MaxArrays
        /\ now.kind = "arr" =>
             Len(T1.arrays[now.ref]) + Len(key.paths) <= MaxItems
        /\ ApplyTpl(keep(T2, b, n),
                    [NoTStep EXCEPT !.fresh = TRUE, !.op = "appendInputNode", !.on = b,
                                    !.ret = n, !.name = name,
                                    !.paths = key.paths])

\* setOutputNode / setRawOutputNode(output, key).
setRawOutputNode(b, name, p) ==
  /\ tpl.builders[b].used
  /\ LET n == FreeBuilder(tpl)
         T1 == [tpl EXCEPT !.builders[b].mapOutputKeys[name] = p]
     IN ApplyTpl(keep(T1, b, n),
                 [NoTStep EXCEPT !.fresh = TRUE, !.op = "setOutputNode", !.on = b, !.ret = n,
                                 !.name = name, !.paths = <<p>>])

\* The paths bound to a name in builder b of T.
BoundPaths(T, b, name) ==
  LET bd == T.builders[b].mapInputKeys[name]
  IN CASE bd.kind = "str" -> <<bd.path>>
       [] bd.kind = "arr" -> T.arrays[bd.ref]
       [] OTHER -> <<>>

\* input(key, value): nothing for an undefined value; "Key not found" for a
\* name without binding; else the value is written at every bound path of
\* this builder's prompt, and this builder is returned.
input(b, name, v) ==
  /\ tpl.builders[b].used
  /\ LET bd == tpl.builders[b].mapInputKeys[name]
         st == writePaths(StartWrite(tpl.builders[b].prompt, tpl.outside),
                          BoundPaths(tpl, b, name), 1, v)
         s == [NoTStep EXCEPT !.op = "input", !.on = b, !.ret = b,
                              !.name = name, !.value = v,
                              !.paths = BoundPaths(tpl, b, name)]
     IN IF v = "undefined" THEN ApplyTpl(tpl, s)
        ELSE IF bd.kind = "undef"
        THEN ApplyTpl(tpl, [s EXCEPT !.err = "KeyNotFound", !.ret = 0])
        ELSE ApplyTpl([tpl EXCEPT !.builders[b].prompt = st.t,
                                  !.outside = st.out],
                      [s EXCEPT !.err = st.err,
                                !.ret = IF st.err = "none" THEN b ELSE 0])

\* inputRaw(key, value): "Invalid key" when the whole key is a reserved
\* name; else the value is written at the path, skipping the segments
\* __proto__ and constructor.
inputRaw(b, p, v) ==
  /\ tpl.builders[b].used
  /\ LET st == writeRaw(StartWrite(tpl.builders[b].prompt, tpl.outside), p, v)
         s == [NoTStep EXCEPT !.op = "inputRaw", !.on = b, !.ret = b,
                              !.value = v, !.paths = <<p>>]
     IN IF Len(p) = 1 /\ p[1] \in Reserved
        THEN ApplyTpl(tpl, [s EXCEPT !.err = "InvalidKey", !.ret = 0])
        ELSE IF v = "undefined" THEN ApplyTpl(tpl, s)
        ELSE ApplyTpl([tpl EXCEPT !.builders[b].prompt = st.t,
                                  !.outside = st.out],
                      [s EXCEPT !.err = st.err,
                                !.ret = IF st.err = "none" THEN b ELSE 0])

\* ------------------------------------------------------------------ Init
\* A client object addClient has not seen.
NoInit == [phase |-> "none", index |-> 0]

\* The events a pool dispatches for the first K clients when their init()
\* calls resolve one after the other.
RECURSIVE ReadyAdded(_)
ReadyAdded(K) ==
  IF K = 0 THEN <<>>
  ELSE ReadyAdded(K - 1) \o
         << [type |-> "ready", client |-> K, clientIdx |-> K - 1],
            [type |-> "added", client |-> K, clientIdx |-> K - 1] >>

\* A pool whose first K client objects have been added and initialized.
LifeAfter(K) ==
  /\ initState = [o \in Objs |->
                    IF o <= K THEN [phase |-> "ready", index |-> o - 1]
                    ELSE NoInit]
  /\ destroyed = {}
  /\ poolEvents = ReadyAdded(K)
  /\ poolDestroyed = FALSE

Init ==
  /\ mode \in Modes
  /\ clients = <<>>
  /\ clientStates = <<>>
  /\ clientId = [o \in Objs |-> ""]
  /\ jobQueue = <<>>
  /\ routineIdx = 0
  /\ maxQueueSize \in 1..MaxQueueSize
  /\ jobs = [j \in PoolJobs |-> NewJob]
  /\ LifeAfter(0)
  /\ TplIdle
  /\ ApiIdle

\* --------------------------------------------------------------- actions
\* The number of run() calls made so far.
Submitted == Cardinality({j \in JobIds : jobs[j].phase # "new"})

\* A call of run(); the calls are numbered in the order they are made.
Run(j, inp) ==
  /\ jobs[j].phase = "new"
  /\ j = Submitted + 1
  /\ Apply(run(j, inp, Cur))
  /\ UNCHANGED <<mode, clients, clientId, maxQueueSize>>
  /\ UNCHANGED <<lifeVars, apiVars, tplVars>>

\* A call of batch() with an array of 2n jobs on a pool that has run no job.
Batch(n, inp) ==
  /\ Submitted = 0
  /\ 2 * n <= Cardinality(JobIds)
  /\ Apply(batch(1, 2 * n, inp, Cur))
  /\ UNCHANGED <<mode, clients, clientId, maxQueueSize>>
  /\ UNCHANGED <<lifeVars, apiVars, tplVars>>

\* The back-off timer of a job sleeping in getAvailableClient fires: one more
\* pass of the loop.  A pass that finds nothing and changes nothing is left
\* out (the job just sleeps again).
Poll(j) ==
  /\ jobs[j].phase = "waiting"
  /\ LET sel == getAvailableClient(mode, clients, clientStates, routineIdx,
                                   jobs[j].includeIds, jobs[j].excludedIds)
     IN /\ sel.client # 0 \/ sel.routineIdx # routineIdx
        /\ clientStates' = sel.states
        /\ routineIdx' = sel.routineIdx
        /\ jobs' = IF sel.client # 0
                   THEN [jobs EXCEPT ![j].phase = "running",
                                     ![j].ranOn = Append(@, sel.client)]
                   ELSE jobs
  /\ UNCHANGED <<mode, clients, clientId, jobQueue, maxQueueSize>>
  /\ UNCHANGED <<lifeVars, apiVars, tplVars>>

\* The job function resolves: run()'s promise resolves; processJobQueue's
\* loop goes on with the head of the queue, if any.
JobResolve(j) ==
  /\ jobs[j].phase = "running"
  /\ Apply(processJobQueue(
             [Cur EXCEPT !.jobs[j] = Settled(jobs[j], "resolved", "none")]))
  /\ UNCHANGED <<mode, clients, clientId, maxQueueSize>>
  /\ UNCHANGED <<lifeVars, apiVars, tplVars>>

\* The job function throws: the catch block of run()'s fn.
JobThrow(j) ==
  /\ jobs[j].phase = "running"
  /\ LET job == jobs[j]
         client == job.ranOn[Len(job.ranOn)]
         retry == /\ job.enableFailover
                  /\ job.attempt < job.maxRetries
                  /\ job.onlineClients > Len(job.excludedIds)
         after == IF retry
                  THEN [job EXCEPT !.phase = "retryDelay",
                                   !.lastError = TRUE,
                                   !.excludedIds = Append(@, clientId[client])]
                  ELSE Settled(job, "rejected", "job")
     IN Apply(processJobQueue([Cur EXCEPT !.jobs[j] = after]))
  /\ UNCHANGED <<mode, clients, clientId, maxQueueSize>>
  /\ UNCHANGED <<lifeVars, apiVars, tplVars>>

\* The retryDelay timer fires: tryExecute again.
RetryFire(j) ==
  /\ jobs[j].phase = "retryDelay"
  /\ Apply(tryExecute(j, Cur))
  /\ UNCHANGED <<mode, clients, clientId, maxQueueSize>>
  /\ UNCHANGED <<lifeVars, apiVars, tplVars>>

\* addClient up to client.init(): the client and a fresh state are pushed and
\* initializeClient binds the handlers.
AddClient(o, id) ==
  /\ clientId[o] = ""
  /\ \A p \in Objs : p < o => clientId[p] # ""
  /\ clients' = Append(clients, o)
  /\ clientStates' = Append(clientStates,
       [id |-> id, queueRemaining |-> 0, locked |-> FALSE, online |-> FALSE])
  /\ clientId' = [clientId EXCEPT ![o] = id]
  /\ initState' = [initState EXCEPT
       ![o] = [phase |-> "initializing", index |-> Len(clients)]]
  /\ UNCHANGED <<mode, jobQueue, routineIdx, maxQueueSize, jobs, destroyed,
                 poolEvents, poolDestroyed>>
  /\ UNCHANGED <<apiVars, tplVars>>

\* client.init() resolves: initializeClient dispatches "ready" and returns,
\* and addClient then dispatches "added", both with the index closed over.
InitResolve(o) ==
  /\ initState[o].phase = "initializing"
  /\ initState' = [initState EXCEPT ![o].phase = "ready"]
  /\ poolEvents' = poolEvents \o
       << [type |-> "ready", client |-> o, clientIdx |-> initState[o].index],
          [type |-> "added", client |-> o, clientIdx |-> initState[o].index] >>
  /\ UNCHANGED <<mode, clients, clientStates, clientId, jobQueue, routineIdx,
                 maxQueueSize, jobs, destroyed, poolDestroyed>>
  /\ UNCHANGED <<apiVars, tplVars>>

\* client.init() rejects (the health probe never succeeded): the rejection
\* propagates through initializeClient and addClient, which dispatch nothing.
InitReject(o) ==
  /\ initState[o].phase = "initializing"
  /\ initState' = [initState EXCEPT ![o].phase = "failed"]
  /\ UNCHANGED <<mode, clients, clientStates, clientId, jobQueue, routineIdx,
                 maxQueueSize, jobs, destroyed, poolEvents, poolDestroyed>>
  /\ UNCHANGED <<apiVars, tplVars>>

\* client.destroy() called by the owner of a client the pool holds: the flag
\* is set, the channel is closed with its handlers cleared, and the listeners
\* (the pool's handlers among them) are detached.  Nothing reaches the pool.
ClientDestroy(o) ==
  /\ Includes(clients, o)
  /\ o \notin destroyed
  /\ destroyed' = destroyed \cup {o}
  /\ UNCHANGED <<mode, clients, clientStates, clientId, jobQueue, routineIdx,
                 maxQueueSize, jobs, initState, poolEvents, poolDestroyed>>
  /\ UNCHANGED <<apiVars, tplVars>>

\* ComfyPool.destroy(): the queue is emptied, every client is destroyed and
\* both arrays are cleared.
Destroy ==
  /\ jobQueue' = <<>>
  /\ destroyed' = destroyed \cup {clients[i] : i \in 1..Len(clients)}
  /\ clients' = <<>>
  /\ clientStates' = <<>>
  /\ poolDestroyed' = TRUE
  /\ UNCHANGED <<mode, clientId, routineIdx, maxQueueSize, jobs, initState,
                 poolEvents>>
  /\ UNCHANGED <<apiVars, tplVars>>

\* removeClientByIndex (0-based index): the client is destroyed, which
\* detaches the pool's handlers, and both arrays are spliced.
removeClientByIndex(index) ==
  /\ index >= 0 /\ index < Len(clients)
  /\ clients' = RemoveAt(clients, index)
  /\ clientStates' = RemoveAt(clientStates, index)
  /\ destroyed' = destroyed \cup {clients[index + 1]}
  /\ UNCHANGED <<mode, clientId, jobQueue, routineIdx, maxQueueSize, jobs,
                 initState, poolEvents, poolDestroyed>>
  /\ UNCHANGED <<apiVars, tplVars>>

\* The events of a client the pool re-emits without touching its state:
\* the handlers initializeClient binds for them dispatch the event with the
\* index initializeClient was called with.
PlainReemitted == {"terminal", "auth_error", "auth_success", "connection_error"}

\* The events re-emitted so far.
Reemits ==
  Len(SelectSeq(poolEvents, LAMBDA e : e.type \notin {"ready", "added"}))

Reemit(o, type) ==
  /\ initState[o].phase # "none"
  /\ o \notin destroyed
  /\ Reemits < MaxEvents
  /\ poolEvents' = Append(poolEvents,
       [type |-> type, client |-> o, clientIdx |-> initState[o].index])
  /\ UNCHANGED <<mode, clients, clientStates, clientId, jobQueue, routineIdx,
                 maxQueueSize, jobs, initState, destroyed, poolDestroyed>>
  /\ UNCHANGED <<apiVars, tplVars>>

\* The handler of "disconnected" of the client at position i: the state goes
\* offline and unlocked, and the event is re-emitted with the same index.
ReemitDisconnected(i) ==
  /\ i \in 1..Len(clientStates)
  /\ clients[i] \notin destroyed
  /\ Reemits < MaxEvents
  /\ clientStates' = [clientStates EXCEPT ![i].online = FALSE,
                                          ![i].locked = FALSE]
  /\ poolEvents' = Append(poolEvents,
       [type |-> "disconnected", client |-> clients[i],
        clientIdx |-> initState[clients[i]].index])
  /\ UNCHANGED <<mode, clients, clientId, jobQueue, routineIdx, maxQueueSize,
                 jobs, initState, destroyed, poolDestroyed>>
  /\ UNCHANGED <<apiVars, tplVars>>

\* A changeMode that also unlocks every client.
changeModeUnlocks(m) ==
  /\ m # mode
  /\ mode' = m
  /\ clientStates' = [i \in DOMAIN clientStates |->
                        [clientStates[i] EXCEPT !.locked = FALSE]]
  /\ UNCHANGED <<clients, clientId, jobQueue, routineIdx, maxQueueSize, jobs>>
  /\ UNCHANGED <<lifeVars, apiVars, tplVars>>

changeMode(m) ==
  /\ m # mode
  /\ mode' = m
  /\ UNCHANGED <<clients, clientStates, clientId, jobQueue, routineIdx,
                 maxQueueSize, jobs>>
  /\ UNCHANGED <<lifeVars, apiVars, tplVars>>

\* The handlers initializeClient binds to a client; i is the 1-based position
\* of the client's state.  A handler that would leave the state as it is is
\* left out.  destroy() detaches the handlers of a client.  A client may have
\* been initialized by its owner before it is added, so its frames can arrive
\* as soon as the handlers are bound.
OnStatus(i, q) ==
  /\ i \in 1..Len(clientStates)
  /\ clients[i] \notin destroyed
  /\ clientStates' = [clientStates EXCEPT
       ![i].online = TRUE,
       ![i].queueRemaining = q,
       ![i].locked = IF mode # "PICK_ZERO" THEN FALSE ELSE @]
  /\ clientStates' # clientStates
  /\ UNCHANGED <<mode, clients, clientId, jobQueue, routineIdx, maxQueueSize,
                 jobs>>
  /\ UNCHANGED <<lifeVars, apiVars, tplVars>>

OnDisconnected(i) ==
  /\ i \in 1..Len(clientStates)
  /\ clients[i] \notin destroyed
  /\ clientStates' = [clientStates EXCEPT ![i].online = FALSE,
                                          ![i].locked = FALSE]
  /\ clientStates' # clientStates
  /\ UNCHANGED <<mode, clients, clientId, jobQueue, routineIdx, maxQueueSize,
                 jobs>>
  /\ UNCHANGED <<lifeVars, apiVars, tplVars>>

OnReconnected(i) ==
  /\ i \in 1..Len(clientStates)
  /\ clients[i] \notin destroyed
  /\ clientStates' = [clientStates EXCEPT ![i].online = TRUE,
                                          ![i].locked = FALSE]
  /\ clientStates' # clientStates
  /\ UNCHANGED <<mode, clients, clientId, jobQueue, routineIdx, maxQueueSize,
                 jobs>>
  /\ UNCHANGED <<lifeVars, apiVars, tplVars>>

\* execution_success: unlock.
OnExecutionSuccess(i) ==
  /\ i \in 1..Len(clientStates)
  /\ clients[i] \notin destroyed
  /\ clientStates[i].locked
  /\ clientStates' = [clientStates EXCEPT ![i].locked = FALSE]
  /\ UNCHANGED <<mode, clients, clientId, jobQueue, routineIdx, maxQueueSize,
                 jobs>>
  /\ UNCHANGED <<lifeVars, apiVars, tplVars>>

\* execution_interrupted: unlock (and re-emit).
OnExecutionInterrupted(i) ==
  /\ i \in 1..Len(clientStates)
  /\ clients[i] \notin destroyed
  /\ clientStates[i].locked
  /\ clientStates' = [clientStates EXCEPT ![i].locked = FALSE]
  /\ UNCHANGED <<mode, clients, clientId, jobQueue, routineIdx, maxQueueSize,
                 jobs>>
  /\ UNCHANGED <<lifeVars, apiVars, tplVars>>

\* execution_error of the backend: unlock (and re-emit).
OnExecutionError(i) ==
  /\ i \in 1..Len(clientStates)
  /\ clients[i] \notin destroyed
  /\ clientStates[i].locked
  /\ clientStates' = [clientStates EXCEPT ![i].locked = FALSE]
  /\ UNCHANGED <<mode, clients, clientId, jobQueue, routineIdx, maxQueueSize,
                 jobs>>
  /\ UNCHANGED <<lifeVars, apiVars, tplVars>>

\* queue_error: unlock.
OnQueueError(i) ==
  /\ i \in 1..Len(clientStates)
  /\ clients[i] \notin destroyed
  /\ clientStates[i].locked
  /\ clientStates' = [clientStates EXCEPT ![i].locked = FALSE]
  /\ UNCHANGED <<mode, clients, clientId, jobQueue, routineIdx, maxQueueSize,
                 jobs>>
  /\ UNCHANGED <<lifeVars, apiVars, tplVars>>

\* Concurrent run() calls that differ in weight, against a pool whose clients
\* come, go and report backend events.
Next ==
  \/ \E j \in PoolJobs, inp \in PlainInputs : Run(j, inp)
  \/ \E j \in PoolJobs : Poll(j)
  \/ \E j \in PoolJobs : JobResolve(j)
  \/ \E j \in PoolJobs : JobThrow(j)
  \/ \E o \in Objs, id \in Ids : AddClient(o, id)
  \/ \E i \in 0..(MaxClients - 1) : removeClientByIndex(i)
  \/ \E m \in Modes : changeMode(m)
  \/ \E i \in 1..MaxClients, q \in 0..MaxDepth : OnStatus(i, q)
  \/ \E i \in 1..MaxClients : OnDisconnected(i)
  \/ \E i \in 1..MaxClients : OnReconnected(i)
  \/ \E i \in 1..MaxClients : OnExecutionSuccess(i)
  \/ \E i \in 1..MaxClients : OnExecutionInterrupted(i)
  \/ \E i \in 1..MaxClients : OnExecutionError(i)
  \/ \E i \in 1..MaxClients : OnQueueError(i)

Spec == Init /\ [][Next]_vars

\* One run() call with a client filter and failover options, against the same
\* pool and the same backend events.
NextFailover ==
  \/ \E inp \in FilterInputs : Run(1, inp)
  \/ \E j \in PoolJobs : Poll(j)
  \/ \E j \in PoolJobs : JobResolve(j)
  \/ \E j \in PoolJobs : JobThrow(j)
  \/ \E j \in PoolJobs : RetryFire(j)
  \/ \E o \in Objs, id \in Ids : AddClient(o, id)
  \/ \E i \in 0..(MaxClients - 1) : removeClientByIndex(i)
  \/ \E m \in Modes : changeMode(m)
  \/ \E i \in 1..MaxClients, q \in 0..MaxDepth : OnStatus(i, q)
  \/ \E i \in 1..MaxClients : OnDisconnected(i)
  \/ \E i \in 1..MaxClients : OnReconnected(i)
  \/ \E i \in 1..MaxClients : OnExecutionSuccess(i)
  \/ \E i \in 1..MaxClients : OnExecutionInterrupted(i)
  \/ \E i \in 1..MaxClients : OnExecutionError(i)
  \/ \E i \in 1..MaxClients : OnQueueError(i)

SpecFailover == Init /\ [][NextFailover]_vars

\* A batch() call on a pool of two clients A and B that are online and
\* unlocked, with any reported queue depths; the jobs resolve in any order and
\* no backend event arrives.
InitBatch ==
  /\ mode \in Modes
  /\ clients = <<1, 2>>
  /\ \E q1, q2 \in 0..MaxDepth :
       clientStates =
         << [id |-> "a", queueRemaining |-> q1, locked |-> FALSE, online |-> TRUE],
            [id |-> "b", queueRemaining |-> q2, locked |-> FALSE, online |-> TRUE] >>
  /\ clientId = [o \in Objs |-> IF o = 1 THEN "a" ELSE IF o = 2 THEN "b" ELSE ""]
  /\ jobQueue = <<>>
  /\ routineIdx = 0
  /\ maxQueueSize \in 1..MaxQueueSize
  /\ jobs = [j \in BatchJobs |-> NewJob]
  /\ LifeAfter(2)
  /\ TplIdle
  /\ ApiIdle

NextBatch ==
  \/ \E n \in 1..MaxPairs : Batch(n, Input(Undef, {}, <<>>, 0, TRUE))
  \/ \E j \in BatchJobs : JobResolve(j)

SpecBatch == InitBatch /\ [][NextBatch]_vars

\* run() calls of equal weight and without filter or failover in PICK_ROUTINE,
\* on a pool of K clients that are online and stay online, whatever the
\* cursor stands at; the jobs resolve in any order, status frames and
\* execution_success events arrive.
InitRoutine ==
  /\ mode = "PICK_ROUTINE"
  /\ \E K \in 1..MaxClients :
       /\ clients = [i \in 1..K |-> i]
       /\ clientStates \in
            [1..K -> [id : Ids, queueRemaining : {0}, locked : {FALSE},
                      online : {TRUE}]]
       /\ clientId = [o \in Objs |->
                        IF o <= K THEN clientStates[o].id ELSE ""]
       /\ LifeAfter(K)
       /\ TplIdle
  /\ ApiIdle
  /\ jobQueue = <<>>
  /\ routineIdx \in 0..(MaxClients - 1)
  /\ maxQueueSize \in 1..MaxQueueSize
  /\ jobs = [j \in BatchJobs |-> NewJob]

NextRoutine ==
  \/ \E j \in BatchJobs : Run(j, Input(Undef, {}, <<>>, 0, FALSE))
  \/ \E j \in BatchJobs : JobResolve(j)
  \/ \E i \in 1..MaxClients, q \in 0..MaxDepth : OnStatus(i, q)
  \/ \E i \in 1..MaxClients : OnExecutionSuccess(i)

SpecRoutine == InitRoutine /\ [][NextRoutine]_vars

\* One run() call with default or disabled failover, against a pool whose
\* clients are added, initialized, removed and destroyed, by the pool or by
\* their owner, and which may itself be destroyed.
LifeInputs == { Input(Undef, {}, <<>>, 0, f) : f \in BOOLEAN }

\* A run() call on a pool that has not been destroyed.
RunLive(j, inp) == ~poolDestroyed /\ Run(j, inp)

NextLifecycle ==
  \/ \E inp \in LifeInputs : RunLive(1, inp)
  \/ \E j \in PoolJobs : Poll(j)
  \/ \E j \in PoolJobs : JobResolve(j)
  \/ \E j \in PoolJobs : JobThrow(j)
  \/ \E j \in PoolJobs : RetryFire(j)
  \/ \E o \in Objs, id \in Ids : AddClient(o, id)
  \/ \E o \in Objs : InitResolve(o)
  \/ \E o \in Objs : InitReject(o)
  \/ \E o \in Objs : ClientDestroy(o)
  \/ \E i \in 0..(MaxClients - 1) : removeClientByIndex(i)
  \/ Destroy
  \/ \E i \in 1..MaxClients, q \in 0..MaxDepth : OnStatus(i, q)
  \/ \E i \in 1..MaxClients : OnDisconnected(i)
  \/ \E i \in 1..MaxClients : OnReconnected(i)
  \/ \E i \in 1..MaxClients : OnExecutionSuccess(i)

SpecLifecycle == Init /\ [][NextLifecycle]_vars

\* The job function of job j settles while the client it was handed is alive.
SettlesOnLiveClient(j) ==
  /\ jobs[j].phase = "running"
  /\ jobs[j].ranOn[Len(jobs[j].ranOn)] \notin destroyed
  /\ JobResolve(j) \/ JobThrow(j)

\* The same with the timers of the event loop firing (a job sleeping in the
\* selection loop makes its next pass, a retryDelay timer fires) and with job
\* functions that settle as long as their client is alive: a job function
\* waits for the events of its client, and a destroyed client dispatches none.
SpecLifecycleFair ==
  /\ SpecLifecycle
  /\ \A j \in PoolJobs :
       /\ WF_vars(Poll(j))
       /\ WF_vars(RetryFire(j))
       /\ WF_vars(SettlesOnLiveClient(j))

\* A client outside any pool, from construction on.
InitApi ==
  /\ mode = "PICK_ZERO"
  /\ clients = <<>>
  /\ clientStates = <<>>
  /\ clientId = [o \in Objs |-> ""]
  /\ jobQueue = <<>>
  /\ routineIdx = 0
  /\ maxQueueSize = 1
  /\ jobs = [j \in PoolJobs |-> NewJob]
  /\ LifeAfter(0)
  /\ TplIdle
  /\ ApiIdle

\* init() calls, one after the other, on a client whose channels stay up
\* once made; the polling fallback runs when it was started.
NextInit ==
  \/ InitCall
  \/ PingOk
  \/ PingFail
  \/ \E throws \in BOOLEAN : InitFinish(throws)
  \/ FeaturesDone
  \/ TerminalDone
  \/ \E s \in Socks : SockOpen(s)
  \/ \E s \in Socks : SockError(s)
  \/ PollTick
  \/ \E throws \in BOOLEAN : PollOk(throws)
  \/ PollFail
  \/ ApiDestroy

SpecInit == InitApi /\ [][NextInit]_vars

\* init(maxTries, delayTime) calls with the health probes of pingSuccess
\* counted, against a backend that may answer a probe or not.
NextPing ==
  \/ \E m \in 1..MaxTries : InitWith(m)
  \/ ProbeFails
  \/ DelayElapsed
  \/ ProbeOk
  \/ \E throws \in BOOLEAN : InitFinish(throws)
  \/ FeaturesDone
  \/ TerminalDone
  \/ \E s \in Socks : SockOpen(s)

SpecPing == InitApi /\ [][NextPing]_vars

\* A client after its first init(), the feature probe and the terminal
\* subscription settled: ready, its first channel connecting, the watchdog
\* running.
InitLadder ==
  /\ mode = "PICK_ZERO"
  /\ clients = <<>>
  /\ clientStates = <<>>
  /\ clientId = [o \in Objs |-> ""]
  /\ jobQueue = <<>>
  /\ routineIdx = 0
  /\ maxQueueSize = 1
  /\ jobs = [j \in PoolJobs |-> NewJob]
  /\ LifeAfter(0)
  /\ TplIdle
  /\ api = [NewApi EXCEPT !.isReady = TRUE, !.socket = 1, !.wsTimer = 1,
                          !.inits = 1]
  /\ socks = [s \in Socks |->
               IF s = 1
               THEN [NoSock EXCEPT !.state = "connecting", !.handlers = TRUE,
                                   !.timer = TRUE]
               ELSE NoSock]
  /\ ladders = [l \in Ladders |-> NoLadder]
  /\ hist = [NoHist EXCEPT !.creations = 1]
  /\ step = [NoStep EXCEPT !.created = TRUE, !.requested = TRUE]

\* The life of the channels of an initialized client: channels open, fail
\* and close, the watchdog and the retry timer fire, the polling fallback
\* runs, and the client may be destroyed.
NextLadder ==
  \/ \E s \in Socks : SockOpen(s)
  \/ \E s \in Socks : SockError(s)
  \/ \E s \in Socks, throws \in BOOLEAN : SockClose(s, throws)
  \/ \E s \in Socks, throws \in BOOLEAN : WsTimerFire(s, throws)
  \/ \E l \in Ladders, throws \in BOOLEAN : RetryTimerFire(l, throws)
  \/ PollTick
  \/ \E throws \in BOOLEAN : PollOk(throws)
  \/ PollFail
  \/ ApiDestroy

SpecLadder == InitLadder /\ [][NextLadder]_vars

\* The same life where every timer that is armed fires and every channel
\* gets its events: a connecting channel opens or fails, the close event
\* follows an error or a close, the polling interval ticks and its status
\* request is answered.
SpecLadderFair ==
  /\ SpecLadder
  /\ WF_vars(PollTick)
  /\ WF_vars(\E throws \in BOOLEAN : PollOk(throws))
  /\ \A l \in Ladders : WF_vars(\E throws \in BOOLEAN : RetryTimerFire(l, throws))
  /\ \A s \in Socks :
       /\ WF_vars(SockOpen(s) \/ SockError(s))
       /\ WF_vars(\E throws \in BOOLEAN : SockClose(s, throws))

\* The same life with every tick of the watchdog at which lastActivity is
\* older than wsTimeout, also the ticks that return at once.
NextWatchdog ==
  \/ NextLadder
  \/ \E s \in Socks : WsTimerSkip(s)

SpecWatchdog == InitLadder /\ [][NextWatchdog]_vars

\* An initialized client on the clock: time passes, its channels open, fail
\* and close, frames arrive, prompts are submitted and answered, and the
\* watchdog compares lastActivity with the clock.
ActivityFrames == {u32be(1) \o u32be(2), u32be(3) \o u32be(1)}

NextActivity ==
  \/ ClockTick
  \/ \E s \in Socks : SockOpen(s)
  \/ \E s \in Socks : SockError(s)
  \/ \E s \in Socks : SockClose(s, FALSE)
  \/ \E s \in Socks, f \in ActivityFrames : BinaryFrame(s, f)
  \/ QueuePromptCall(FALSE)
  \/ \E st \in Statuses \cup {NoResponse} : PromptResponse(st)
  \/ \E s \in Socks : WsTimerStale(s, FALSE)
  \/ \E l \in Ladders : RetryTimerFire(l, FALSE)

SpecActivity == InitLadder /\ [][NextActivity]_vars

\* Prompts submitted with queuePrompt or appendPrompt to the first client of
\* a pool that is running jobs: the clients are online, jobs are handed out
\* (which locks clients) and settle, status frames arrive.
InitPrompt ==
  /\ mode \in Modes
  /\ \E K \in 1..MaxClients :
       /\ clients = [i \in 1..K |-> i]
       /\ clientStates \in
            [1..K -> [id : Ids, queueRemaining : {0}, locked : {FALSE},
                      online : {TRUE}]]
       /\ clientId = [o \in Objs |->
                        IF o <= K THEN clientStates[o].id ELSE ""]
       /\ LifeAfter(K)
       /\ TplIdle
  /\ ApiIdle
  /\ jobQueue = <<>>
  /\ routineIdx = 0
  /\ maxQueueSize = MaxQueueSize
  /\ jobs = [j \in PoolJobs |-> NewJob]

NextPrompt ==
  \/ \E j \in PoolJobs : Run(j, Input(Undef, {}, <<>>, 0, FALSE))
  \/ \E j \in PoolJobs : Poll(j)
  \/ \E j \in PoolJobs : JobResolve(j)
  \/ \E j \in PoolJobs : JobThrow(j)
  \/ \E i \in 1..MaxClients, q \in 0..MaxDepth : OnStatus(i, q)
  \/ \E append \in BOOLEAN : QueuePromptCall(append)
  \/ \E st \in Statuses \cup {NoResponse} : PromptResponse(st)

SpecPrompt == InitPrompt /\ [][NextPrompt]_vars

\* A pool whose backends send nothing: jobs are submitted, handed to clients
\* and settle, and no event of any client arrives.  Every job function that
\* runs settles.  With no event no lock is released, so a pass of the
\* selection loop of a waiting job finds nothing and changes nothing.
NextQuiet ==
  \/ \E j \in PoolJobs : Run(j, Input(Undef, {}, <<>>, 0, FALSE))
  \/ \E j \in PoolJobs : JobResolve(j)
  \/ \E j \in PoolJobs : JobThrow(j)

SpecQuietFair ==
  /\ InitPrompt
  /\ [][NextQuiet]_vars
  /\ \A j \in PoolJobs : WF_vars(JobResolve(j) \/ JobThrow(j))

\* A pool just constructed with K clients, some of which may not be online
\* yet, in any mode: run() calls without filter or failover, the selection
\* loop of a waiting job keeps polling, jobs resolve, and status frames bring
\* clients online, where they stay.
InitCold ==
  /\ mode \in Modes
  /\ \E K \in 1..MaxClients :
       /\ clients = [i \in 1..K |-> i]
       /\ \E on \in [1..K -> BOOLEAN] :
            clientStates =
              [i \in 1..K |->
                 [id |-> IF i = 1 THEN "a" ELSE "b", queueRemaining |-> 0,
                  locked |-> FALSE, online |-> on[i]]]
       /\ clientId = [o \in Objs |->
                        IF o <= K THEN clientStates[o].id ELSE ""]
       /\ LifeAfter(K)
       /\ TplIdle
  /\ ApiIdle
  /\ jobQueue = <<>>
  /\ routineIdx = 0
  /\ maxQueueSize = MaxQueueSize
  /\ jobs = [j \in PoolJobs |-> NewJob]

NextCold ==
  \/ \E j \in PoolJobs : Run(j, Input(Undef, {}, <<>>, 0, FALSE))
  \/ \E j \in PoolJobs : Poll(j)
  \/ \E j \in PoolJobs : JobResolve(j)
  \/ \E i \in 1..MaxClients, q \in 0..MaxDepth : OnStatus(i, q)

SpecColdFair ==
  /\ InitCold
  /\ [][NextCold]_vars
  /\ \A j \in PoolJobs : WF_vars(Poll(j))

\* A pool whose clients are added and removed while events of its clients
\* arrive that the pool re-emits.
NextReemit ==
  \/ \E o \in Objs, id \in Ids : AddClient(o, id)
  \/ \E o \in Objs : InitResolve(o)
  \/ \E o \in Objs : InitReject(o)
  \/ \E i \in 0..(MaxClients - 1) : removeClientByIndex(i)
  \/ \E o \in Objs, type \in PlainReemitted : Reemit(o, type)
  \/ \E i \in 1..MaxClients : ReemitDisconnected(i)

SpecReemit == Init /\ [][NextReemit]_vars

\* Listeners added to and removed from a client, which may be destroyed.
NextListeners ==
  \/ \E type \in EventTypes, callback \in Callbacks : On(type, callback)
  \/ \E type \in EventTypes, callback \in Callbacks : Off(type, callback)
  \/ RemoveAllListeners
  \/ ApiDestroy

SpecListeners == InitApi /\ [][NextListeners]_vars

\* Binary frames arriving on the channels of an initialized client, which
\* open, fail and close, until the client is destroyed.
NextFrames ==
  \/ \E s \in Socks : SockOpen(s)
  \/ \E s \in Socks : SockError(s)
  \/ \E s \in Socks, throws \in BOOLEAN : SockClose(s, throws)
  \/ \E s \in Socks, f \in Frames : BinaryFrame(s, f)
  \/ ApiDestroy

SpecFrames == InitLadder /\ [][NextFrames]_vars

\* A template built from a workflow W, outside any pool and client.
InitTemplate ==
  /\ mode = "PICK_ZERO"
  /\ clients = <<>>
  /\ clientStates = <<>>
  /\ clientId = [o \in Objs |-> ""]
  /\ jobQueue = <<>>
  /\ routineIdx = 0
  /\ maxQueueSize = 1
  /\ jobs = [j \in PoolJobs |-> NewJob]
  /\ initState = [o \in Objs |-> NoInit]
  /\ destroyed = {}
  /\ poolEvents = <<>>
  /\ poolDestroyed = FALSE
  /\ ApiIdle
  /\ \E W \in Workflows :
       tpl = [NoTpl EXCEPT !.builders[1] = NewBuilder(W), !.callerW = W]

\* The operations of a template and of the templates they return; the paths
\* bound are "a" and "b.a", alone or in an array.
SomePaths == { <<"a">>, <<"b", "a">> }
OnePath(P) == { key \in KeyArgs(P) : Len(key.paths) = 1 }

NextTemplate ==
  \/ \E b \in Builders : Clone(b)
  \/ \E b \in Builders, node \in Keys : Bypass(b, node)
  \/ \E b \in Builders, node \in Keys : Reinstate(b, node)
  \/ \E b \in Builders, key \in OnePath(SomePaths) :
       setRawInputNode(b, "x", key)
  \/ \E b \in Builders, key \in OnePath(SomePaths) :
       appendRawInputNode(b, "x", key)
  \/ \E b \in Builders, name \in OutNames, k \in Keys :
       setRawOutputNode(b, name, <<k>>)
  \/ \E b \in Builders, name \in Names, v \in Scalars \cup {"undefined"} :
       input(b, name, v)
  \/ \E b \in Builders, p \in SomePaths, v \in Scalars : inputRaw(b, p, v)

SpecTemplate == InitTemplate /\ [][NextTemplate]_vars

\* The builder a chain of calls build(W, N).op(..).op(..) has arrived at.
Latest == CHOOSE b \in Builders :
            /\ tpl.builders[b].used
            /\ \A c \in Builders : tpl.builders[c].used => c <= b

Chain(b) == b = Latest /\ tpl.ops < MaxChain

\* A chain that binds the name x to one or two paths of ordinary segments and
\* applies values.
NextFidelity ==
  \/ \E b \in Builders, key \in KeyArgs(NormalPaths) :
       Chain(b) /\ setRawInputNode(b, "x", key)
  \/ \E b \in Builders, name \in Names, v \in Scalars \cup {"undefined"} :
       Chain(b) /\ input(b, name, v)

SpecFidelity == InitTemplate /\ [][NextFidelity]_vars

\* A chain of the operations that take a path, with paths that have a
\* reserved segment.
NextReserved ==
  \/ \E b \in Builders, p \in ReservedPaths :
       Chain(b) /\ setRawInputNode(b, "x", [isArray |-> FALSE, paths |-> <<p>>])
  \/ \E b \in Builders, name \in Names, v \in Scalars \cup {"undefined"} :
       Chain(b) /\ input(b, name, v)
  \/ \E b \in Builders, p \in ReservedPaths,
        v \in Scalars \cup {"undefined"} : Chain(b) /\ inputRaw(b, p, v)

SpecReserved == InitTemplate /\ [][NextReserved]_vars

\* ------------------------------------------------------------ claims
Last(s) == s[Len(s)]

\* Job j's function is executing on client object o.
RunningOn(j, o) == jobs[j].phase = "running" /\ Last(jobs[j].ranOn) = o

\* In this step job j's function is invoked on a client.
Handed(j) == Len(jobs'[j].ranOn) > Len(jobs[j].ranOn)

\* The 1-based position of client object o in clients (0 when removed).
PosOf(o) == FindIndex(clients, LAMBDA c : c = o) + 1

\* C1: a client executes at most one job function dispatched by the pool at
\* any moment, in every mode.
C1_OneJobPerClient ==
  \A j1, j2 \in JobIds :
    \A o \in Objs : RunningOn(j1, o) /\ RunningOn(j2, o) => j1 = j2

\* C2: selection never returns a client whose state is locked at the moment
\* of selection, in any mode.
C2_NeverSelectsLocked ==
  [][\A j \in JobIds :
       Handed(j) => ~clientStates[PosOf(Last(jobs'[j].ranOn))].locked]_vars

Min(a, b) == IF a <= b THEN a ELSE b

\* run() has been called for job j and its promise has not settled.
Live(j) == jobs[j].phase \in {"waiting", "running", "retryDelay"}

\* C3: a job is invoked at most min(maxRetries, number of online clients)
\* times, and every invocation is on a client whose id is not in the exclude
\* set accumulated so far.  The count is stated for the calls made while
\* some client was online, where the bound allows a first attempt.
C3_FailoverMonotonic ==
  \A j \in JobIds :
    /\ Live(j) /\ jobs[j].onlineClients >= 1 =>
         Len(jobs[j].ranOn) <= Min(jobs[j].maxRetries, jobs[j].onlineClients)
    /\ jobs[j].phase = "running" =>
         ~Includes(jobs[j].excludedIds, clientId[Last(jobs[j].ranOn)])

\* In this step job j's function throws on the client it is running on.
Throws(j) ==
  jobs[j].phase = "running" /\ jobs'[j].phase \in {"retryDelay", "rejected"}

\* run()'s promise for job j rejects in this step with the job's error, after
\* execution_error{willRetry=false}.
RejectsFinal(j) == jobs'[j].phase = "rejected" /\ jobs'[j].error = "job"

\* An online client other than the one job j runs on that is outside the
\* job's exclude set.
OtherNotExcluded(j) ==
  \E i \in 1..Len(clientStates) :
    /\ clientStates[i].online
    /\ clientStates[i].id # clientId[Last(jobs[j].ranOn)]
    /\ ~Includes(jobs[j].excludedIds, clientStates[i].id)

\* C4: when a job throws and failover is disabled, or the attempts made have
\* reached maxRetries, or no online client outside the accumulated exclude
\* set remains, run() emits execution_error{willRetry=false} and rejects.
C4_FinalFailureRejects ==
  [][\A j \in JobIds :
       ( /\ Throws(j)
         /\ \/ ~jobs[j].enableFailover
            \/ jobs[j].attempt >= jobs[j].maxRetries
            \/ ~OtherNotExcluded(j) )
       => RejectsFinal(j)]_vars

\* The ids of the pool's clients are pairwise distinct.
DistinctIds ==
  \A i, k \in 1..Len(clientStates) :
    clientStates[i].id = clientStates[k].id => i = k

\* An online client other than the one job j runs on that passes the job's
\* filter.
OtherEligible(j) ==
  \E i \in 1..Len(clientStates) :
    /\ clientStates[i].id # clientId[Last(jobs[j].ranOn)]
    /\ Accepts(clientStates[i], jobs[j].includeIds, jobs[j].excludedIds)

\* maxRetries as the caller means it: the option, or else the number of
\* clients online now.
MeantRetries(j) ==
  IF jobs[j].options # 0 THEN jobs[j].options ELSE OnlineCount

\* C5: when a job throws on client A with failover enabled, fewer than
\* maxRetries attempts made and another eligible client online, the pool emits
\* execution_error{willRetry=true}, and the re-run is on a client other than
\* the ones the job failed on when such an eligible client is online.
\* Stated for pools with pairwise distinct client ids.
C5_FailoverRetries ==
  [][\A j \in JobIds :
       /\ ( /\ Throws(j)
            /\ DistinctIds
            /\ jobs[j].enableFailover
            /\ jobs[j].attempt < MeantRetries(j)
            /\ OtherEligible(j) )
          => jobs'[j].phase = "retryDelay"
       /\ ( /\ Handed(j)
            /\ DistinctIds
            /\ \E i \in 1..Len(clientStates) :
                 /\ Accepts(clientStates[i], jobs[j].includeIds,
                            jobs[j].excludedIds)
                 /\ ~Includes(jobs[j].ranOn, clients[i]) )
          => ~Includes(jobs[j].ranOn, Last(jobs'[j].ranOn))]_vars

\* Job j has been accepted by run() and waits for a client.
Waiting(j) == jobs[j].phase = "waiting"

\* In this step job late is handed a client that job early, which stays
\* waiting, would have accepted as well.
Overtakes(late, early) ==
  /\ Waiting(early) /\ Waiting(late)
  /\ Handed(late)
  /\ jobs'[early].phase = "waiting"
  /\ Accepts(clientStates[PosOf(Last(jobs'[late].ranOn))],
             jobs[early].includeIds, jobs[early].excludedIds)

\* C6: of two waiting jobs, the one with the strictly lower weight is handed
\* to a client first.
C6_WeightPriority ==
  [][\A j1, j2 \in JobIds :
       jobs[j1].weight < jobs[j2].weight => ~Overtakes(j2, j1)]_vars

\* C7: among waiting jobs of equal weight, job functions are handed to
\* clients in the order of the run() calls (first attempts).
C7_FifoAmongEqualWeights ==
  [][\A j1, j2 \in JobIds :
       ( /\ j1 < j2
         /\ jobs[j1].weight = jobs[j2].weight
         /\ jobs[j1].attempt = 1 /\ jobs[j2].attempt = 1 )
       => ~Overtakes(j2, j1)]_vars

\* C8: the number of jobs accepted by run() and not yet handed to a client
\* never exceeds maxQueueSize (a run() call made at the limit is refused).
C8_QueueBound ==
  Cardinality({j \in JobIds : Waiting(j)}) <= maxQueueSize

\* The state, before this step, of the client job j is handed in this step.
Chosen(j) == clientStates[PosOf(Last(jobs'[j].ranOn))]

\* C9: in a pool with pairwise distinct client ids, every client returned by
\* selection is online at the moment of selection and passes the job's
\* filter: a member of includeIds when that is non-empty, otherwise not a
\* member of excludeIds.
C9_SelectedIsOnlineAndPassesFilter ==
  [][\A j \in JobIds :
       Handed(j) /\ DistinctIds =>
         /\ Chosen(j).online
         /\ IF jobs'[j].includeIds # {}
            THEN Chosen(j).id \in jobs'[j].includeIds
            ELSE \A k \in 1..Len(jobs'[j].excludedIds) :
                   jobs'[j].excludedIds[k] # Chosen(j).id]_vars

\* A retried job runs on the second of two online clients with distinct ids,
\* the first one being in its exclude set.
C9_Witness ==
  \E j \in JobIds :
    /\ jobs[j].phase = "running"
    /\ jobs[j].attempt = 2
    /\ jobs[j].includeIds = {}
    /\ Len(clientStates) = 2 /\ DistinctIds
    /\ clientStates[1].online /\ clientStates[2].online
    /\ Includes(jobs[j].excludedIds, clientStates[1].id)
    /\ Last(jobs[j].ranOn) = clients[2]

\* The number of jobs whose function was invoked on client object o.
HandedTo(o) == Cardinality({j \in JobIds : Includes(jobs[j].ranOn, o)})

\* C10: in PICK_LOWEST with two online clients A and B that both report queue
\* depth 0, a batch of 2n equal-weight jobs that all resolve, with no status
\* frame in between, hands n jobs to A and n jobs to B.
C10_BatchSplitsEvenly ==
  ( /\ mode = "PICK_LOWEST"
    /\ clientStates[1].queueRemaining = 0
    /\ clientStates[2].queueRemaining = 0
    /\ Submitted > 0
    /\ \A j \in 1..Submitted : jobs[j].phase = "resolved" )
  => /\ 2 * HandedTo(clients[1]) = Submitted
     /\ 2 * HandedTo(clients[2]) = Submitted

\* Every client of the pool has been handed floor(M/K) or ceil(M/K) of the M
\* jobs submitted, K being the number of clients.
EvenShare ==
  LET K == Len(clients)
      M == Submitted
  IN \A i \in 1..K :
       HandedTo(clients[i]) \in {M \div K, (M + K - 1) \div K}

\* C11: in PICK_ROUTINE with K clients that stay online and M jobs of equal
\* weight and empty filters, each client is handed floor(M/K) or ceil(M/K)
\* jobs.
C11_RoutineFair ==
  (\A j \in JobIds : ~Waiting(j)) => EvenShare

\* C11 as amended: the same for a pool whose client ids are pairwise
\* distinct.
C11_RoutineFairDistinctIds ==
  (DistinctIds /\ \A j \in JobIds : ~Waiting(j)) => EvenShare

\* Three jobs have been handed to two clients with distinct ids, two to one
\* client and one to the other.
C11_Witness ==
  /\ Len(clients) = 2 /\ DistinctIds
  /\ Submitted = 3
  /\ {HandedTo(clients[1]), HandedTo(clients[2])} = {1, 2}

\* C12: after pool.destroy(), every promise of an earlier run() that had not
\* settled eventually settles.
C12_DestroySettlesPending ==
  \A j \in PoolJobs : (poolDestroyed /\ Live(j)) ~> ~Live(j)

\* Job j's function is in flight on a client that removeClientByIndex has
\* removed from the pool.
InFlightOnRemoved(j) ==
  /\ jobs[j].phase = "running"
  /\ ~poolDestroyed
  /\ ~Includes(clients, Last(jobs[j].ranOn))

\* C13: a job in flight on a client that is removed is treated like a failure
\* of the client: run() fails it over or rejects, it does not stay in flight
\* forever.
C13_RemovalFailsInFlightJob ==
  \A j \in PoolJobs : InFlightOnRemoved(j) ~> jobs[j].phase # "running"

\* The pool state of every destroyed client the pool holds is offline and
\* unlocked.
DestroyedAreOffline ==
  \A i \in 1..Len(clients) :
    clients[i] \in destroyed =>
      ~clientStates[i].online /\ ~clientStates[i].locked

\* C14: once a client of the pool has been destroyed its pool state is
\* online=false and locked=false, and selection never returns it.
C14_DestroyedNeverSelected ==
  [][/\ DestroyedAreOffline'
     /\ \A j \in PoolJobs :
          Handed(j) => Last(jobs'[j].ranOn) \notin destroyed]_vars

\* The pool dispatches its k-th event in this step.
Dispatched(k) == k > Len(poolEvents) /\ k <= Len(poolEvents')

\* C15: for every client added with addClient, "added" is dispatched before
\* "ready", and "ready" is dispatched only when the client's init() has
\* completed and the client is online (its first status frame has arrived).
C15_AddedBeforeReady ==
  [][\A k \in 1..Len(poolEvents') :
       Dispatched(k) /\ poolEvents'[k].type = "ready" =>
         LET o == poolEvents'[k].client
         IN /\ \E m \in 1..(k - 1) :
                 /\ poolEvents'[m].type = "added"
                 /\ poolEvents'[m].client = o
            /\ initState'[o].phase = "ready"
            /\ PosOf(o) > 0 /\ clientStates[PosOf(o)].online]_vars

\* C16: under persistent channel failure (no channel has opened since the
\* disconnection) one disconnection leads to at most 10 channel-creation
\* attempts and one reconnection_failed, and to no attempt after that event.
C16_AtMostTenAttempts ==
  (hist.disconnected /\ ~hist.opened) =>
    /\ hist.creations <= MAX_ATTEMPTS
    /\ hist.failed <= 1
    /\ ~hist.afterFailed

\* C17: within one ladder reconnected and reconnection_failed exclude each
\* other: when an attempt of the ladder has opened, the ladder dispatches no
\* reconnection_failed.
C17_ReconnectedXorFailed ==
  \A l \in Ladders : ~(ladders[l].reconnected /\ ladders[l].failed)

\* The close event of the client's current channel s is handled in this step
\* (the client is not destroyed and has not torn the channel down itself).
ActiveCloses(s) ==
  /\ api.socket = s
  /\ ~api.destroyed
  /\ socks[s].state \in {"open", "closing"}
  /\ socks'[s].state = "closed"

\* C18: every time the active channel closes, the client dispatches
\* disconnected and starts reconnecting, also when that channel was made by
\* an earlier reconnect.
C18_CloseStartsReconnect ==
  [][\A s \in Socks :
       ActiveCloses(s) =>
         /\ "disconnected" \in step'.events
         /\ step'.created]_vars

\* C19: a destroyed client creates no channel, starts no status poll and
\* dispatches no connected, reconnected, reconnection_failed or status event.
C19_DestroyedIsSilent ==
  api.destroyed =>
    /\ ~step.created
    /\ ~step.requested
    /\ step.events \cap {"connected", "reconnected", "reconnection_failed",
                          "status"} = {}

\* C20: init() on a client that is ready returns at once: it sends no
\* request and leaves the client as it was.
C20_InitIdempotent ==
  [][(api.isReady /\ api'.inits > api.inits) =>
       /\ ~step'.requested
       /\ api'.init = api.init]_vars

\* C21: isReady is never true while the feature probe, the opening of the
\* channel or the terminal subscription started by init() is outstanding.
InitOutstanding ==
  \/ api.featProbes > 0
  \/ api.termSubs > 0
  \/ api.socket # 0 /\ socks[api.socket].state = "connecting"

C21_ReadyOnlyAfterInitSteps == api.isReady => ~InitOutstanding

\* C22: a queuePrompt call (made directly or through appendPrompt) whose
\* response has a status outside 2xx rejects with the response, and
\* queue_error is emitted so that the pool unlocks the client.
PromptAnswered ==
  /\ api.prompt.phase = "sent"
  /\ api'.prompt.phase # "sent"
  /\ api'.prompt.status \in Statuses \ (200..299)

C22_QueuePromptFailureEmitsQueueError ==
  [][PromptAnswered =>
       /\ api'.prompt.phase = "rejected"
       /\ api'.prompt.err = "response"
       /\ "queue_error" \in step'.events
       /\ \A i \in 1..Len(clients) :
            clients[i] = PromptClient => ~clientStates'[i].locked]_vars

\* C23: a binary frame whose first word is 1 emits b_preview with the MIME
\* type given by its second word (2: image/png, else image/jpeg) and the
\* bytes from 8 on as payload; a frame of any other type is discarded and
\* leaves the channel as it was.
FrameArrives(s) ==
  /\ step'.frame # <<>>
  /\ socks[s].state = "open"
  /\ api.socket = s

PreviewOf(f) ==
  [mime |-> IF getUint32(f, 4) = 2 THEN "image/png" ELSE "image/jpeg",
   payload |-> slice8(f)]

C23_PreviewMimeFromSecondWord ==
  [][\A s \in Socks :
       FrameArrives(s) =>
         IF getUint32(step'.frame, 0) = 1 /\ Len(step'.frame) >= 8
         THEN "b_preview" \in step'.events /\ step'.blob = PreviewOf(step'.frame)
         ELSE /\ getUint32(step'.frame, 0) # 1 => step'.events = {}
              /\ socks'[s] = socks[s]
              /\ api' = api]_vars

\* What can be observed of builder b: its workflow, the paths bound to its
\* input names, its output bindings and its bypass list.
Obs(T, b) ==
  [workflow |-> T.builders[b].prompt,
   inputs |-> [n \in Names |-> BoundPaths(T, b, n)],
   outputs |-> T.builders[b].mapOutputKeys,
   bypass |-> T.builders[b].bypassNodes]

\* A template operation has just been applied.
Applied(ops) == tpl'.ops = tpl.ops + 1 /\ tpl'.step.op \in ops

\* C24: setInputNode, appendInputNode, setOutputNode, bypass, reinstate and
\* input each return a new template and leave the observable state of the
\* template they are called on as it was.
C24_CopyOnWrite ==
  [][Applied({"setInputNode", "appendInputNode", "setOutputNode", "bypass",
              "reinstate", "input"}) =>
       /\ Obs(tpl', tpl'.step.on) = Obs(tpl, tpl'.step.on)
       /\ tpl'.step.err = "none" => tpl'.step.fresh]_vars

\* C25: the workflow given to the constructor is never changed, and after
\* c = t.clone() no operation applied to c changes what can be observed of
\* t, nor one applied to t what can be observed of c.
C25_CloneIsIndependent ==
  [][/\ tpl'.callerW = tpl.callerW
     /\ \A t \in Builders, c \in Builders :
          (tpl.builders[c].cloneOf = t /\ tpl'.ops = tpl.ops + 1) =>
            /\ tpl'.step.on = c => Obs(tpl', t) = Obs(tpl, t)
            /\ tpl'.step.on = t => Obs(tpl', c) = Obs(tpl, c)]_vars

\* C26: setInputNode with a path that has a reserved segment, input() through
\* a binding with such a path and inputRaw() with such a path fail with an
\* invalid-path error and change neither a template nor anything outside.
HasReserved(paths) ==
  \E i \in 1..Len(paths) : \E k \in 1..Len(paths[i]) : paths[i][k] \in Reserved

C26_ReservedPathsRefused ==
  [][(Applied({"setInputNode", "input", "inputRaw"})
        /\ HasReserved(tpl'.step.paths)) =>
       /\ tpl'.step.err = "InvalidKey"
       /\ tpl'.builders = tpl.builders
       /\ tpl'.arrays = tpl.arrays
       /\ tpl'.outside = tpl.outside]_vars

\* The workflow t with the value v at path p, the objects on the way to p
\* made where there is none, and all else as in t.
OverwriteOne(t, p, v) ==
  LET pre == { SubSeq(p, 1, i) : i \in 1..(Len(p) - 1) }
      base == setAt(t, p, v)
  IN [q \in DOMAIN base \cup pre |-> IF q \in pre THEN "obj" ELSE base[q]]

RECURSIVE Overwrite(_, _, _, _)
Overwrite(t, paths, i, v) ==
  IF i > Len(paths) THEN t
  ELSE Overwrite(OverwriteOne(t, paths[i], v), paths, i + 1, v)

\* Building and binding keep the workflow: a new template holds W, and
\* setInputNode returns a template with the same workflow and the binding.
BuildAndBindKeep ==
  /\ tpl.ops = 0 => tpl.builders[1].prompt = tpl.callerW
  /\ (Applied({"setInputNode"}) /\ tpl'.step.ret # 0) =>
       /\ tpl'.builders[tpl'.step.ret].prompt = tpl.builders[tpl'.step.on].prompt
       /\ BoundPaths(tpl', tpl'.step.ret, tpl'.step.name) = tpl'.step.paths

\* input() has just been applied with a value, through a binding.
InputApplied ==
  /\ Applied({"input"})
  /\ tpl'.step.paths # <<>>
  /\ tpl'.step.value # "undefined"

\* input() wrote the value at exactly the bound paths.
InputOverwrites ==
  /\ tpl'.step.err = "none"
  /\ tpl'.builders[tpl'.step.on].prompt =
       Overwrite(tpl.builders[tpl'.step.on].prompt, tpl'.step.paths, 1,
                 tpl'.step.value)

WellFormed(t, paths) ==
  /\ \A i \in 1..Len(paths) : \A n \in 1..(Len(paths[i]) - 1) :
       LET q == SubSeq(paths[i], 1, n)
       IN q \in DOMAIN t => t[q] = "obj"
  /\ \A i \in 1..Len(paths), k \in 1..Len(paths) :
       Len(paths[i]) < Len(paths[k]) =>
         SubSeq(paths[k], 1, Len(paths[i])) # paths[i]

LockedOf(o) == clientStates[PosOf(o)].locked

\* This step hands a job to client object o (client selection found it).
SelectedIn(o) ==
  \E j \in JobIds :
    /\ jobs'[j].phase = "running"
    /\ Len(jobs'[j].ranOn) = Len(jobs[j].ranOn) + 1
    /\ Last(jobs'[j].ranOn) = o

\* This step is a handler of the pool for an event of the client at position
\* i that may unlock: a status message counts only outside PICK_ZERO.
UnlockingEvent(i) ==
  \/ mode # "PICK_ZERO" /\ \E q \in 0..MaxDepth : OnStatus(i, q)
  \/ OnDisconnected(i)
  \/ OnReconnected(i)
  \/ OnExecutionSuccess(i)
  \/ OnExecutionInterrupted(i)
  \/ OnExecutionError(i)
  \/ OnQueueError(i)

\* C28: the lock of a client goes from false to true only in a step that
\* selects the client for a job, and from true to false only in a handler of
\* execution_success, execution_error, execution_interrupted, queue_error,
\* disconnected, reconnected, or of a status message outside PICK_ZERO.
C28_LockDiscipline ==
  [][\A o \in Objs :
       (PosOf(o) > 0 /\ PosOf(o)' > 0) =>
         /\ (~LockedOf(o) /\ LockedOf(o)') => SelectedIn(o)
         /\ (LockedOf(o) /\ ~LockedOf(o)') => UnlockingEvent(PosOf(o))]_vars

\* A client that was selected for a job and unlocked by an event while the
\* job function is still running, in PICK_ZERO.
C28_Witness ==
  \E j \in JobIds :
    /\ mode = "PICK_ZERO"
    /\ jobs[j].phase = "running"
    /\ PosOf(Last(jobs[j].ranOn)) > 0
    /\ ~LockedOf(Last(jobs[j].ranOn))

\* ------------------------------------------------- the weighted job queue
\* The two operations the pool performs on jobQueue, applied in any order to
\* a queue that starts empty: pushJobByWeight of a new job item, whose weight
\* is the one given to run() or, by default, the length of the queue, and the
\* shift of the head in processJobQueue and pickJob.
QueueJobs == 1..MaxQueued
Weights == 0..MaxWeight

InitQueue ==
  /\ mode \in Modes
  /\ clients = <<1, 2>>
  /\ clientStates =
       << [id |-> "a", queueRemaining |-> 0, locked |-> FALSE, online |-> TRUE],
          [id |-> "b", queueRemaining |-> 0, locked |-> FALSE, online |-> TRUE] >>
  /\ clientId = [o \in Objs |-> IF o = 1 THEN "a" ELSE IF o = 2 THEN "b" ELSE ""]
  /\ jobQueue = <<>>
  /\ routineIdx = 0
  /\ maxQueueSize = MaxQueued
  /\ jobs = [j \in QueueJobs |-> NewJob]
  /\ LifeAfter(2)
  /\ TplIdle
  /\ ApiIdle

\* The job items are numbered in the order they are pushed.
Enqueue(j, w) ==
  /\ jobs[j].phase = "new"
  /\ j = Submitted + 1
  /\ jobs' = [jobs EXCEPT ![j].phase = "queued", ![j].weight = w]
  /\ jobQueue' = pushJobByWeight(jobQueue, jobs', j)
  /\ UNCHANGED <<mode, clients, clientStates, clientId, routineIdx,
                 maxQueueSize>>
  /\ UNCHANGED <<lifeVars, apiVars, tplVars>>

Dequeue ==
  /\ Len(jobQueue) > 0
  /\ jobQueue' = Tail(jobQueue)
  /\ jobs' = [jobs EXCEPT ![Head(jobQueue)].phase = "shifted"]
  /\ UNCHANGED <<mode, clients, clientStates, clientId, routineIdx,
                 maxQueueSize>>
  /\ UNCHANGED <<lifeVars, apiVars, tplVars>>

NextQueue ==
  \/ \E j \in JobIds, w \in Weights \cup {Len(jobQueue)} : Enqueue(j, w)
  \/ Dequeue

SpecQueue == InitQueue /\ [][NextQueue]_vars

\* C29: after any sequence of pushJobByWeight and shift operations the queue
\* is non-decreasing in weight from head to tail, and of two items of equal
\* weight the one pushed first is nearer the head.
C29_QueueSortedFifo ==
  \A i, k \in 1..Len(jobQueue) :
    i < k =>
      /\ jobs[jobQueue[i]].weight <= jobs[jobQueue[k]].weight
      /\ jobs[jobQueue[i]].weight = jobs[jobQueue[k]].weight
           => jobQueue[i] < jobQueue[k]

\* A queue, one item of which was shifted, that holds two items of equal
\* weight behind an item that was pushed after both of them.
C29_Witness ==
  /\ \E j \in JobIds : jobs[j].phase = "shifted"
  /\ \E h, i, k \in 1..Len(jobQueue) :
       /\ h < i /\ i < k
       /\ jobs[jobQueue[i]].weight = jobs[jobQueue[k]].weight
       /\ jobQueue[h] > jobQueue[k]

\* ---------------------------------------------- session ids from the backend
\* A text frame of type "status" whose data carries a session id, received
\* by the client at position i: the socket's onmessage dispatches "status",
\* which runs the handler the pool bound (online, queueRemaining, locked), and
\* then assigns data.sid, a non-empty string, to the client's clientId, which
\* is what the getter id returns.
StatusFrame(i, q, sid) ==
  /\ i \in 1..Len(clientStates)
  /\ clients[i] \notin destroyed
  /\ clientStates' = [clientStates EXCEPT
       ![i].online = TRUE,
       ![i].queueRemaining = q,
       ![i].locked = IF mode # "PICK_ZERO" THEN FALSE ELSE @]
  /\ clientId' = [clientId EXCEPT ![clients[i]] = sid]
  /\ UNCHANGED <<mode, clients, jobQueue, routineIdx, maxQueueSize, jobs>>
  /\ UNCHANGED <<lifeVars, apiVars, tplVars>>

\* A pool whose clients are added and removed while their frames arrive.
NextSid ==
  \/ \E o \in Objs, id \in Ids : AddClient(o, id)
  \/ \E o \in Objs : InitResolve(o)
  \/ \E o \in Objs : InitReject(o)
  \/ \E i \in 0..(MaxClients - 1) : removeClientByIndex(i)
  \/ \E m \in Modes : changeMode(m)
  \/ \E i \in 1..MaxClients, q \in 0..MaxDepth : OnStatus(i, q)
  \/ \E i \in 1..MaxClients, q \in 0..MaxDepth, sid \in Ids :
       StatusFrame(i, q, sid)

SpecSid == Init /\ [][NextSid]_vars

\* C30: for every index i, clientStates[i].id equals the id of clients[i],
\* whatever clients were added and removed and whatever frames arrived.
C30_StateIdMatchesClientId ==
  /\ Len(clientStates) = Len(clients)
  /\ \A i \in 1..Len(clients) : clientStates[i].id = clientId[clients[i]]

\* A reconnection is in progress: the retry timer of a ladder is armed, or the
\* current channel was made by a reconnection attempt and is still connecting.
ReconnectInProgress ==
  \/ \E l \in Ladders : ladders[l].timer
  \/ /\ api.socket # 0
     /\ socks[api.socket].isReconnect
     /\ socks[api.socket].state = "connecting"

\* C31: a watchdog tick at which lastActivity is older than wsTimeout returns
\* without initiating a reconnection only while a reconnection is in
\* progress, also after an earlier reconnection has completed.
C31_WatchdogAlwaysReconnects ==
  [][\A s \in Socks : WsTimerSkip(s) => ReconnectInProgress]_vars

\* This step is the continuation of pollFn after the status endpoint answered.
PollAnswered ==
  /\ api.pollInFlight
  /\ ~api'.pollInFlight
  /\ "status" \in step'.events

\* The streaming channel is down for good: there is none, or the current one
\* is closed, and no reconnection is in progress.
ChannelDown ==
  /\ api.socket = 0 \/ socks[api.socket].state = "closed"
  /\ ~ReconnectInProgress

\* C32: while the polling fallback is active and the status endpoint
\* answers, a poll at which the streaming channel is down calls the
\* WebSocketClient constructor for a new channel.
C32_PollRecreatesChannel ==
  [][(PollAnswered /\ ChannelDown) => step'.created]_vars

\* This step delivers a frame of the streaming channel to onmessage.
FrameReceived == step'.frame # <<>>

\* This step delivers a successful response of an HTTP request of the client.
HttpSucceeded ==
  /\ api.prompt.phase = "sent"
  /\ api'.prompt.phase = "resolved"

\* C33: lastActivity is set to the current time by every received frame and
\* by every successful HTTP response, and it never decreases.
C33_ActivityRefreshed ==
  [][/\ (FrameReceived \/ HttpSucceeded) => api'.lastActivity = api'.now
     /\ api'.lastActivity >= api.lastActivity]_vars

\* C34: an init(maxTries, delayMs) call sends at most maxTries health probes
\* and sleeps at most maxTries times between them.
C34_InitProbesBounded ==
  /\ api.ping.probes <= api.ping.maxTries
  /\ api.ping.waits <= api.ping.maxTries

\* A job function that was dispatched to client object o has settled.
SettledOn(o) ==
  \E j \in JobIds :
    /\ jobs[j].phase \in {"resolved", "rejected"}
    /\ Len(jobs[j].ranOn) > 0
    /\ Last(jobs[j].ranOn) = o

Unlocked(o) == PosOf(o) > 0 /\ ~clientStates[PosOf(o)].locked

\* C35: in PICK_ZERO, once a job function dispatched to a client has
\* settled, the client's lock eventually becomes false, with no backend event.
C35_SettledJobUnlocks ==
  \A o \in Objs :
    (mode = "PICK_ZERO" /\ PosOf(o) > 0 /\ SettledOn(o)) ~> Unlocked(o)

\* Some client is online and passes the filter of job j.
Eligible(j) ==
  \E i \in 1..Len(clientStates) :
    Accepts(clientStates[i], jobs[j].includeIds, jobs[j].excludedIds)

\* C36: in PICK_ROUTINE a job that waits in the selection loop while an
\* eligible client is online is eventually handed to a client, also when the
\* set of eligible clients was empty at an earlier selection attempt.
C36_RoutineRecoversFromEmptySet ==
  \A j \in PoolJobs :
    (mode = "PICK_ROUTINE" /\ jobs[j].phase = "waiting" /\ Eligible(j))
      ~> jobs[j].phase # "waiting"

\* C37: a reconnection ladder that has started ends with a channel of the
\* reconnection opening (reconnected) or with reconnection_failed, unless the
\* client is destroyed.
C37_LadderTerminates ==
  \A l \in Ladders :
    ladders[l].attempt > 0
      ~> \/ ladders[l].reconnected
         \/ ladders[l].failed
         \/ hist.opened
         \/ api.destroyed

\* clients.indexOf(o): the 0-based index of client object o, -1 for none.
IndexIn(cls, o) == FindIndex(cls, LAMBDA c : c = o)

\* This step dispatches an event the pool re-emits on behalf of a client.
Reemitted ==
  /\ Len(poolEvents') = Len(poolEvents) + 1
  /\ Last(poolEvents').type \in PlainReemitted \cup {"disconnected"}

\* C38: an event the pool re-emits for a client carries the index the client
\* has in pool.clients when the event is dispatched.
C38_ReemittedIndexIsCurrent ==
  [][Reemitted =>
       Last(poolEvents').clientIdx =
         IndexIn(clients', Last(poolEvents').client)]_vars

\* C39: the recorded listener list always holds exactly the listeners that
\* are attached through on(), whatever off() calls were made, so that
\* removeAllListeners() and destroy() detach every one of them.
C39_ListenersRecorded == Recorded(api.listeners) = api.attached

\* The nodes a bypass list names.
Bypassed(ls) == {ls[i] : i \in 1..Len(ls)}

\* C40: the template reinstate(n) returns bypasses exactly the nodes the
\* receiver bypasses other than n; when n is not bypassed by the receiver the
\* bypass list is the receiver's.
C40_ReinstateRemovesOnlyNode ==
  [][Applied({"reinstate"}) =>
       LET before == tpl.builders[tpl'.step.on].bypassNodes
           after == tpl'.builders[tpl'.step.ret].bypassNodes
       IN /\ Bypassed(after) = Bypassed(before) \ {tpl'.step.name}
          /\ tpl'.step.name \notin Bypassed(before) => after = before]_vars
====
